---- MODULE Spec2Model ----
(***************************************************************************)
(* Murmer server: the WebSocket dispatch engine of murmer_server           *)
(* (src/murmer_server/src/ws/handlers.rs), its authentication pipeline,    *)
(* the shared AppState registry, the rate limiters of security.rs and the  *)
(* persistence calls of db.rs.                                             *)
(*                                                                         *)
(* Every session is one tokio task.  A handler is split at the operations  *)
(* on shared memory (one mutex section, one bus send, one database round   *)
(* trip is one step), because the tasks run in parallel between them.      *)
(***************************************************************************)
EXTENDS Integers, Sequences, FiniteSets, TLC

(***************************************************************************)
(* Bounds of the model.                                                    *)
(***************************************************************************)
NumSessions == 2
\* frames received and clock advances in the authentication runs
AuthFrames == 2
AuthTicks == 1
\* presence frames received in the registry runs
RegistryFrameCount == 2
\* frames received and clock advances in the chat runs
ChatFrameCount == 4
ChatTicks == 1
\* frames received in the voice runs
VoiceFrameCount == 3
\* frames received in the reaction runs
ReactFrameCount == 5

(***************************************************************************)
(* Program constants.                                                      *)
(***************************************************************************)
RateWindowSecs == 60
TimestampWindowMs == 60000
TimestampFutureMs == 3600000
TimestampPastMs == 86400000
UserNameMax == 32
VoiceQualityMax == 32
DEFAULT_VOICE_BITRATE == 64000
MAX_ALLOWED_VOICE_BITRATE == 320000
ChannelNameMax == 50
KeyBytes == 32
SignatureBytes == 64
EmojiMax == 16
MIN_EPHEMERAL_SECONDS == 5
MAX_EPHEMERAL_SECONDS == 86400
I32Max == 2147483647
MAX_HISTORY_LIMIT == 200
BusCapacity == 100
DEFAULT_HISTORY_LIMIT == 50

\* Option<T>: None, or Some(x)
None == << >>
Some(x) == << x >>
IsSome(o) == Len(o) = 1
Unwrap(o) == o[1]

Sessions == 1 .. NumSessions

(***************************************************************************)
(* Strings that are inspected character by character are sequences of      *)
(* characters.  "E" stands for a two-byte alphabetic character (U+00E9)    *)
(* and "T" for a tab.                                                      *)
(***************************************************************************)
IsWhitespace(c) == c \in {" ", "T"}
IsAsciiAlphanumeric(c) == c \in {"a", "b", "g", "s", "1"}
IsAlphanumeric(c) == IsAsciiAlphanumeric(c) \/ c = "E"
ByteLen(c) == IF c = "E" THEN 2 ELSE 1

RECURSIVE StrLen(_)
StrLen(str) == IF str = << >> THEN 0 ELSE ByteLen(Head(str)) + StrLen(Tail(str))

RECURSIVE TrimStart(_)
TrimStart(str) ==
    IF str # << >> /\ IsWhitespace(Head(str)) THEN TrimStart(Tail(str)) ELSE str

RECURSIVE TrimEnd(_)
TrimEnd(str) ==
    IF str # << >> /\ IsWhitespace(str[Len(str)])
    THEN TrimEnd(SubSeq(str, 1, Len(str) - 1))
    ELSE str

Trim(str) == TrimEnd(TrimStart(str))

\* The order of strings (str::cmp, byte by byte) and Vec::sort of a list
\* without duplicates
Alphabet == << "T", " ", "!", "+", "-", "1", "_", "a", "b", "g", "s", "E" >>
CharRank(c) == CHOOSE i \in 1 .. Len(Alphabet) : Alphabet[i] = c

RECURSIVE StrLess(_, _)
StrLess(x, y) ==
    IF y = << >> THEN FALSE
    ELSE IF x = << >> THEN TRUE
    ELSE IF Head(x) # Head(y) THEN CharRank(Head(x)) < CharRank(Head(y))
    ELSE StrLess(Tail(x), Tail(y))

RECURSIVE Sorted(_)
Sorted(set) ==
    IF set = {} THEN << >>
    ELSE LET least == CHOOSE x \in set : \A y \in set \ {x} : StrLess(x, y)
         IN << least >> \o Sorted(set \ {least})

validate_name(name, max_length) ==
    IF name = << >> \/ StrLen(name) > max_length THEN FALSE
    ELSE IF Trim(name) = << >> \/ Trim(name) # name THEN FALSE
    ELSE \A i \in 1 .. Len(name) :
            IsAlphanumeric(name[i]) \/ name[i] \in {"-", "_", " "}

validate_channel_name(name) == validate_name(name, ChannelNameMax)

validate_user_name(name) == validate_name(name, UserNameMax)

\* User names a client may put in a frame.
Alice == << "a" >>
Bob == << "b" >>

\* The text channel "general", written with one character.
General == << "g" >>
\* constants::DEFAULT_VOICE_QUALITY, "standard", written with one character
DEFAULT_VOICE_QUALITY == << "s" >>

\* validation::validate_voice_quality
validate_voice_quality(value) ==
    LET trimmed == Trim(value) IN
    /\ trimmed # << >>
    /\ StrLen(trimmed) <= VoiceQualityMax
    /\ \A i \in 1 .. Len(trimmed) :
          IsAsciiAlphanumeric(trimmed[i]) \/ trimmed[i] \in {"-", "_", " "}

\* validation::validate_bitrate: Some(value as i32) or None
validate_bitrate(value) ==
    IF value <= 0 \/ value > MAX_ALLOWED_VOICE_BITRATE THEN None ELSE Some(value)

(***************************************************************************)
(* Credentials.  A public key string is one of two well-formed keys or a   *)
(* string that fails one decoding step; a signature string records how it  *)
(* decodes, the key that made it and the bytes it signs.  A timestamp      *)
(* string is a decimal number, possibly written with a leading "+" (which  *)
(* str::parse::<i64> accepts), or not a number.                            *)
(***************************************************************************)
GoodKeys == {"k1", "k2"}
BadKeys == {"k_badb64", "k_short", "k_badpoint"}
Base64Ok(pk) == pk # "k_badb64"
DecodedKeyLen(pk) == IF pk = "k_short" THEN KeyBytes - 1 ELSE KeyBytes
VerifyingKeyOk(pk) == pk # "k_badpoint"

\* An i64 written edge * 2^63 + off: edge is 0 for the numbers near zero, 1
\* for those just below 2^63 (off < 0) and -1 for those from -2^63 upwards
\* (off >= 0).  The integers of the model are 32 bits wide.
Wide(edge, off) == [edge |-> edge, off |-> off]
WideLess(a, b) == a.edge < b.edge \/ (a.edge = b.edge /\ a.off < b.off)

\* a - b in i64: the wrapped difference and whether it overflowed
WideSub(a, b) ==
    LET d == a.edge - b.edge
        l == a.off - b.off
    IN IF d = 0 THEN [value |-> Wide(0, l), overflow |-> FALSE]
       ELSE IF d = 1 THEN IF l < 0 THEN [value |-> Wide(1, l), overflow |-> FALSE]
                          ELSE [value |-> Wide(0 - 1, l), overflow |-> TRUE]
       ELSE IF d = 0 - 1 THEN IF l >= 0 THEN [value |-> Wide(0 - 1, l), overflow |-> FALSE]
                              ELSE [value |-> Wide(1, l), overflow |-> TRUE]
       ELSE [value |-> Wide(0, l), overflow |-> TRUE]

\* i64::abs: the wrapped absolute value and whether it overflowed (i64::MIN)
WideAbs(x) ==
    IF x.edge = 0 THEN [value |-> Wide(0, IF x.off < 0 THEN 0 - x.off ELSE x.off),
                        overflow |-> FALSE]
    ELSE IF x.edge = 1 THEN [value |-> x, overflow |-> FALSE]
    ELSE IF x.off = 0 THEN [value |-> x, overflow |-> TRUE]
    ELSE [value |-> Wide(1, 0 - x.off), overflow |-> FALSE]

TsStr(plus, n) == [numeric |-> TRUE, plus |-> plus, edge |-> 0, val |-> n]
\* the decimal string of edge * 2^63 + n
TsEdge(edge, n) == [numeric |-> TRUE, plus |-> FALSE, edge |-> edge, val |-> n]
TsGarbage == [numeric |-> FALSE, plus |-> FALSE, edge |-> 0, val |-> 0]
ParseI64(ts) == IF ts.numeric THEN Some(Wide(ts.edge, ts.val)) ELSE None
\* i64::to_string, as format!("{}", timestamp) writes it
FormatI64(n) == [numeric |-> TRUE, plus |-> FALSE, edge |-> n.edge, val |-> n.off]

Sig(key, msg) == [b64 |-> TRUE, len |-> SignatureBytes, key |-> key, msg |-> msg]
SigBadB64(key, msg) == [b64 |-> FALSE, len |-> SignatureBytes, key |-> key, msg |-> msg]
SigShort(key, msg) == [b64 |-> TRUE, len |-> SignatureBytes - 1, key |-> key, msg |-> msg]
\* ed25519 verification of msg under pk
Ed25519Verify(pk, msg, sig) == sig.key = pk /\ sig.msg = msg

\* validate_timestamp without the 24-hour test: i64::MIN.abs() wraps to
\* i64::MIN, which no window test rejects
validate_timestamp_window_only(ts, now_ms) ==
    LET p == ParseI64(ts) IN
    IF ~IsSome(p) THEN None
    ELSE LET t == Unwrap(p)
             diff == WideAbs(WideSub(Wide(0, now_ms), t).value).value
         IN IF WideLess(Wide(0, TimestampWindowMs), diff) THEN None
            ELSE IF WideLess(Wide(0, now_ms + TimestampFutureMs), t) THEN None
            ELSE Some(t)

\* security::validate_timestamp at wall-clock time now_ms, the arithmetic
\* wrapping as a build without overflow checks computes it: Some(t) or None
validate_timestamp(ts, now_ms) ==
    LET p == ParseI64(ts) IN
    IF ~IsSome(p) THEN None
    ELSE LET t == Unwrap(p)
             diff == WideAbs(WideSub(Wide(0, now_ms), t).value).value
         IN IF WideLess(Wide(0, TimestampWindowMs), diff) THEN None
            ELSE IF WideLess(Wide(0, now_ms + TimestampFutureMs), t) THEN None
            ELSE IF WideLess(t, Wide(0, now_ms - TimestampPastMs)) THEN None
            ELSE Some(t)

\* (now - timestamp).abs() overflows: a build with overflow checks panics
\* there instead of returning
timestamp_panics(ts, now_ms) ==
    /\ IsSome(ParseI64(ts))
    /\ LET d == WideSub(Wide(0, now_ms), Unwrap(ParseI64(ts)))
       IN d.overflow \/ WideAbs(d.value).overflow

\* get_max_auth_attempts_per_minute / get_max_messages_per_minute /
\* get_nonce_expiry_seconds: the environment overrides the defaults; the
\* model runs the server with MAX_AUTH_ATTEMPTS_PER_MINUTE=1 and
\* MAX_MESSAGES_PER_MINUTE=2, the limits tests/security_limits.rs sets.
get_max_auth_attempts_per_minute == 1
get_max_messages_per_minute == 2
get_nonce_expiry_seconds == 300

RECURSIVE cleanup_old_timestamps(_, _)
cleanup_old_timestamps(timestamps, cutoff) ==
    IF timestamps # << >> /\ Head(timestamps) < cutoff
    THEN cleanup_old_timestamps(Tail(timestamps), cutoff)
    ELSE timestamps

\* The sliding-window limiter shared by check_auth_rate_limit and
\* check_message_rate_limit: the pruned queue, and whether the call is allowed.
LimiterPruned(times, at) == cleanup_old_timestamps(times, at - RateWindowSecs)
LimiterAllowsOff(times, at, limit) == TRUE
LimiterAllows(times, at, limit) == Len(LimiterPruned(times, at)) < limit
LimiterNext(times, at, limit) ==
    IF LimiterAllows(times, at, limit)
    THEN Append(LimiterPruned(times, at), at)
    ELSE LimiterPruned(times, at)


(***************************************************************************)
(* Maps (HashMap) are functions with a finite domain.                      *)
(***************************************************************************)
EmptyMap == << >>
Put(m, k, v) == [x \in (DOMAIN m) \cup {k} |-> IF x = k THEN v ELSE m[x]]
Del(m, k) == [x \in (DOMAIN m) \ {k} |-> m[x]]
Get(m, k, default) == IF k \in DOMAIN m THEN m[k] ELSE default

VARIABLES
    \* configuration (AppState.password, AppState.admin_token)
    password, admin_token,
    \* time: seconds on the clock, and how often the model advanced it
    now, ticks,
    \* per session: the locals of handle_socket
    pc, authenticated, user_name, channel, chan_tx, voice_channel, client_ip,
    frame, local, out,
    \* AppState
    users, known_users, statuses, roles, user_keys, voice_channels,
    channels, tx, chan_log,
    \* RateLimiter
    auth_attempts, message_times, used_nonces,
    \* database tables
    messages, next_id, reactions, db_channels, db_roles, db_voice,
    \* frames received so far
    nframes,
    \* history: the credentials of the presence frames processed successfully
    accepted,
    \* history: the direct calls of the limiters and of the nonce store, each
    \* with its key, its clock reading and its verdict
    calls,
    \* the tasks spawned by handle_chat for ephemeral messages
    expiry_tasks,
    \* history: per session, the 'messages' arrays of the history payloads
    \* db::send_history sent, each as the sequence of its message ids
    history_sent,
    \* per session: how many events of the global bus, and of the bus of its
    \* channel, lie behind its receivers global_rx and chan_rx
    global_rx, chan_rx,
    \* per session: how many events its channel's bus had carried when
    \* subscribe() made the receiver chan_rx
    chan_sub,
    \* the POST /role request being served by admin::set_role, its reply, and
    \* the requests served so far
    http

\* what no WebSocket handler writes: the configuration and the HTTP side
cfgVars == << password, admin_token, http >>
timeVars == << now, ticks >>
sessVars == << pc, authenticated, user_name, channel, chan_tx, voice_channel,
               client_ip, frame, local, out >>
regVars == << users, known_users, statuses, roles, user_keys >>
voiceVars == << voice_channels >>
busVars == << channels, tx, chan_log >>
limVars == << auth_attempts, message_times, used_nonces >>
dbVars == << messages, next_id, reactions, db_channels, db_roles, db_voice >>
sharedVars == << regVars, voiceVars, busVars, limVars, dbVars >>
vars == << cfgVars, timeVars, sessVars, sharedVars, nframes, accepted, calls,
          expiry_tasks, history_sent, global_rx, chan_rx, chan_sub >>

NoFrame == [type |-> "none"]
ClientIps == {"ip1", "ip2"}

\* the HTTP side at rest
NoRequest ==
    [pc |-> "idle", bearer |-> "", key |-> "", info |-> [role |-> "", color |-> None],
     affected |-> {}, sent |-> << >>, status |-> 0, served |-> 0]

\* the first value the SERIAL sequence of a stored messages table hands out
SerialAfter(table) ==
    IF DOMAIN table = {} THEN 1
    ELSE 1 + (CHOOSE x \in DOMAIN table : \A y \in DOMAIN table : y <= x)

\* AppState is built with empty containers; db::init seeds 'general' and
\* keeps the rows of the roles and messages tables it finds
InitState(passwords, tokens, role_tables, message_tables) ==
    /\ password \in passwords
    /\ admin_token \in tokens
    /\ now = 0
    /\ ticks = 0
    /\ pc = [s \in Sessions |-> "none"]
    /\ authenticated = [s \in Sessions |-> FALSE]
    /\ user_name = [s \in Sessions |-> None]
    /\ channel = [s \in Sessions |-> General]
    /\ chan_tx = [s \in Sessions |-> 0]
    /\ voice_channel = [s \in Sessions |-> None]
    /\ client_ip = [s \in Sessions |-> "ip1"]
    /\ frame = [s \in Sessions |-> NoFrame]
    /\ local = [s \in Sessions |-> {}]
    /\ out = [s \in Sessions |-> << >>]
    /\ users = {}
    /\ known_users = {}
    /\ statuses = EmptyMap
    /\ roles = EmptyMap
    /\ user_keys = EmptyMap
    /\ voice_channels = EmptyMap
    /\ channels = EmptyMap
    /\ tx = << >>
    /\ chan_log = EmptyMap
    /\ auth_attempts = EmptyMap
    /\ message_times = EmptyMap
    /\ used_nonces = EmptyMap
    /\ messages \in message_tables
    /\ next_id = SerialAfter(messages)
    /\ reactions = {}
    /\ db_channels = {General}
    /\ db_roles \in role_tables
    /\ db_voice = EmptyMap
    /\ nframes = 0
    /\ accepted = << >>
    /\ calls = << >>
    /\ expiry_tasks = {}
    /\ history_sent = [s \in Sessions |-> << >>]
    /\ global_rx = [s \in Sessions |-> 0]
    /\ chan_rx = [s \in Sessions |-> 0]
    /\ chan_sub = [s \in Sessions |-> 0]
    /\ http = NoRequest

\* The passage of time: the clock advances by one of the steps, at most max
\* times in a run.
Tick(steps, max) ==
    /\ ticks < max
    /\ \E d \in steps : now' = now + d
    /\ ticks' = ticks + 1
    /\ UNCHANGED << cfgVars, sessVars, sharedVars, nframes, accepted, calls, expiry_tasks, history_sent, global_rx, chan_rx, chan_sub >>

\* sender.send(Message::Text(..)) of a reply to the peer
Reply(s, code) == out' = [out EXCEPT ![s] = Append(@, code)]
Goto(s, label) == pc' = [pc EXCEPT ![s] = label]

\* The handler goes on at label; of the frame it keeps what it still reads.
Next(s, label, f) == Goto(s, label) /\ frame' = [frame EXCEPT ![s] = f]
\* The handler sends an error and returns Err: the loop breaks.
Fail(s, code) == Reply(s, code) /\ Next(s, "exit", NoFrame)
\* state.tx.send: one event on the global bus
Publish(ev) == tx' = Append(tx, ev)

\* helpers::get_or_create_channel: the bus stored under the name, or a new
\* one.  Buses are numbered in the order of their creation; chan_log holds
\* the events sent on each.
BusOf(name) ==
    IF name \in DOMAIN channels THEN channels[name]
    ELSE Cardinality(DOMAIN chan_log) + 1

get_or_create_channel(name) ==
    /\ channels' = IF name \in DOMAIN channels THEN channels
                   ELSE Put(channels, name, BusOf(name))
    /\ chan_log' = IF name \in DOMAIN channels THEN chan_log
                   ELSE Put(chan_log, BusOf(name), << >>)

\* handle_socket up to the loop: a peer connects
Connect(s, ip) ==
    /\ pc[s] = "none"
    \* the sessions are numbered in the order in which they connect, and the
    \* addresses in the order in which they are first seen
    /\ \A t \in Sessions : t < s => pc[t] # "none"
    /\ s = 1 => ip = "ip1"
    /\ client_ip' = [client_ip EXCEPT ![s] = ip]
    /\ channel' = [channel EXCEPT ![s] = General]
    /\ get_or_create_channel(General)
    /\ chan_tx' = [chan_tx EXCEPT ![s] = BusOf(General)]
    /\ global_rx' = [global_rx EXCEPT ![s] = Len(tx)]
    /\ chan_rx' = [chan_rx EXCEPT ![s] = Len(chan_log'[BusOf(General)])]
    /\ chan_sub' = [chan_sub EXCEPT ![s] = Len(chan_log'[BusOf(General)])]
    /\ user_name' = [user_name EXCEPT ![s] = None]
    /\ voice_channel' = [voice_channel EXCEPT ![s] = None]
    /\ authenticated' = [authenticated EXCEPT ![s] = (password = None)]
    /\ Goto(s, "loop")
    /\ UNCHANGED << cfgVars, timeVars, frame, local, out, regVars, voiceVars, tx,
                    limVars, dbVars, nframes, accepted, calls, expiry_tasks, history_sent >>

\* The first pc of the handler the match on the frame type selects.
HandlerEntry(t) ==
    CASE t = "presence" -> "p_auth"
      [] t = "chat" -> "c_limit"
      [] t = "react" -> "r_lookup"
      [] t = "voice-join" -> "vj_lock"
      [] t = "voice-leave" -> "vl_lock"
      [] t = "create-voice-channel" -> "cv_perm"
      [] t = "delete-voice-channel" -> "dv_perm"
      [] t = "join" -> "j_chan"
      [] t = "load-history" -> "lh_send"
      [] t = "create-channel" -> "cc_perm"
      [] t = "delete-channel" -> "dc_perm"
      [] t = "update-voice-channel" -> "uv_perm"
      [] t = "delete-message" -> "dm_lookup"
      [] t = "ping" -> "ping"
      [] t \in {"voice-offer", "voice-answer", "voice-candidate"} -> "relay"
      [] OTHER -> "loop"

\* The gate of handle_socket: an unauthenticated session may only send presence.
GateOpenOff(s, f) == TRUE
GateOpen(s, f) == authenticated[s] \/ f.type = "presence"

\* One text frame with a string "type" arrives and is routed.
RecvFrame(s, f, max) ==
    /\ pc[s] = "loop"
    /\ nframes < max
    /\ nframes' = nframes + 1
    /\ frame' = [frame EXCEPT ![s] = IF GateOpen(s, f) /\ HandlerEntry(f.type) = "loop"
                                      THEN NoFrame ELSE f]
    /\ IF ~GateOpen(s, f)
       THEN Reply(s, "unauthenticated") /\ Goto(s, "exit")
       ELSE Goto(s, HandlerEntry(f.type)) /\ UNCHANGED out
    /\ UNCHANGED << cfgVars, timeVars, authenticated, user_name, channel,
                    chan_tx, voice_channel, client_ip, local, sharedVars, accepted, calls, expiry_tasks, history_sent, global_rx, chan_rx, chan_sub >>

\* A binary frame, a close frame or a read error: the loop breaks.
RecvNonText(s) ==
    /\ pc[s] = "loop"
    /\ Goto(s, "exit")
    /\ UNCHANGED << cfgVars, timeVars, authenticated, user_name, channel,
                    chan_tx, voice_channel, client_ip, frame, local, out, sharedVars, nframes, accepted, calls, expiry_tasks, history_sent, global_rx, chan_rx, chan_sub >>

\* Line 39: receiver.next() yields None, the stream of inbound frames has
\* ended.  The pattern Some(result) does not match, select! disables the
\* branch and waits on the two bus branches; every later iteration finds the
\* ended stream again.
RecvEnd(s) ==
    /\ pc[s] = "loop"
    /\ Goto(s, "ended")
    /\ UNCHANGED << cfgVars, timeVars, authenticated, user_name, channel,
                    chan_tx, voice_channel, client_ip, frame, local, out, sharedVars, nframes, accepted, calls, expiry_tasks, history_sent, global_rx, chan_rx, chan_sub >>

\* A text frame that is not JSON, or JSON without a string "type": an error is
\* logged at most, and the loop goes on (lines 45-46, 118-121).
RecvInvalid(s, max) ==
    /\ pc[s] = "loop"
    /\ nframes < max
    /\ nframes' = nframes + 1
    /\ UNCHANGED << cfgVars, timeVars, sessVars, sharedVars, accepted, calls,
                    expiry_tasks, history_sent, global_rx, chan_rx, chan_sub >>

\* Lines 123-131: chan_rx.recv() yields the next event of the channel's bus
\* and the session forwards it to its peer; the loop breaks when the socket
\* does not take it.  The bus branches are polled in the loop whether or not
\* the inbound stream has ended.  A bus keeps at least BusCapacity events for a receiver.
ForwardChannel(s, sent) ==
    /\ pc[s] \in {"loop", "ended"}
    /\ chan_rx[s] < Len(chan_log[chan_tx[s]])
    /\ chan_rx' = [chan_rx EXCEPT ![s] = @ + 1]
    /\ IF sent
       THEN Reply(s, chan_log[chan_tx[s]][chan_rx[s] + 1].type) /\ UNCHANGED pc
       ELSE Goto(s, "exit") /\ UNCHANGED out
    /\ UNCHANGED << cfgVars, timeVars, authenticated, user_name, channel,
                    chan_tx, voice_channel, client_ip, frame, local, sharedVars,
                    nframes, accepted, calls, expiry_tasks, history_sent, global_rx, chan_sub >>

\* Line 128: the receiver fell behind by more than the bus keeps; recv()
\* reports Lagged, moves the receiver to the oldest event kept, and the loop
\* goes on
LaggedChannel(s) ==
    /\ pc[s] \in {"loop", "ended"}
    /\ Len(chan_log[chan_tx[s]]) - chan_rx[s] > BusCapacity
    /\ chan_rx' = [chan_rx EXCEPT ![s] = Len(chan_log[chan_tx[s]]) - BusCapacity]
    /\ UNCHANGED << cfgVars, timeVars, sessVars, sharedVars, nframes, accepted,
                    calls, expiry_tasks, history_sent, global_rx, chan_sub >>

\* Lines 132-140: the same for global_rx and the global bus
ForwardGlobal(s, sent) ==
    /\ pc[s] \in {"loop", "ended"}
    /\ global_rx[s] < Len(tx)
    /\ global_rx' = [global_rx EXCEPT ![s] = @ + 1]
    /\ IF sent
       THEN Reply(s, tx[global_rx[s] + 1].type) /\ UNCHANGED pc
       ELSE Goto(s, "exit") /\ UNCHANGED out
    /\ UNCHANGED << cfgVars, timeVars, authenticated, user_name, channel,
                    chan_tx, voice_channel, client_ip, frame, local, sharedVars,
                    nframes, accepted, calls, expiry_tasks, history_sent, chan_rx, chan_sub >>

LaggedGlobalBreaks(s) ==
    /\ pc[s] \in {"loop", "ended"}
    /\ Len(tx) - global_rx[s] > BusCapacity
    /\ global_rx' = [global_rx EXCEPT ![s] = Len(tx) - BusCapacity]
    /\ Goto(s, "exit")
    /\ UNCHANGED << cfgVars, timeVars, authenticated, user_name, channel,
                    chan_tx, voice_channel, client_ip, frame, local, out, sharedVars,
                    nframes, accepted, calls, expiry_tasks, history_sent, chan_rx, chan_sub >>
LaggedGlobal(s) ==
    /\ pc[s] \in {"loop", "ended"}
    /\ Len(tx) - global_rx[s] > BusCapacity
    /\ global_rx' = [global_rx EXCEPT ![s] = Len(tx) - BusCapacity]
    /\ UNCHANGED << cfgVars, timeVars, sessVars, sharedVars, nframes, accepted,
                    calls, expiry_tasks, history_sent, chan_rx, chan_sub >>

(***************************************************************************)
(* The mutexes of AppState.  A guard in the code is a temporary of one     *)
(* statement or is dropped before the next await, so that locking and      *)
(* unlocking fall into one step, with one exception: `current` of          *)
(* handle_update_voice_channel (handlers.rs 675-679) lives on through the  *)
(* send of its let-else branch.  What a task holds between two steps and   *)
(* which mutex its next step locks follow from its position.               *)
(***************************************************************************)
AdminTask == 0
Tasks == Sessions \cup {AdminTask}
TaskPc(t) == IF t = AdminTask THEN http.pc ELSE pc[t]

\* Held with the block around the user_keys guard of set_role (admin.rs
\* 56-63) left out: the guard lives to the end of the function
HeldToTheEnd(t) ==
    IF TaskPc(t) = "uv_unknown" THEN {"voice_channels"}
    ELSE IF TaskPc(t) \in {"sr_roles", "sr_send"} THEN {"user_keys"}
    ELSE {}

\* the mutexes whose guard the task holds between two steps
Held(t) ==
    IF TaskPc(t) = "uv_unknown" THEN {"voice_channels"}
    ELSE {}

\* Mutex::lock().await returns once no other task holds the guard
Free(m, t) == \A u \in Tasks \ {t} : m \notin Held(u)

\* the mutex the next step of the task locks first
Wanted(t) ==
    LET at == TaskPc(t) IN
    IF at \in {"p_reg", "p_busers", "d_busers"} THEN {"users"}
    ELSE IF at = "exit" /\ IsSome(user_name[t]) THEN {"users"}
    ELSE IF at \in {"p_known", "p_busers2", "d_busers2"} THEN {"known_users"}
    ELSE IF at \in {"p_status", "d_status"} THEN {"statuses"}
    ELSE IF at \in {"p_keys", "sr_keys"} THEN {"user_keys"}
    ELSE IF at \in {"p_roles", "sr_roles", "p_snapshot"} THEN {"roles"}
    ELSE IF at \in {"cc_perm", "dc_perm", "cv_perm", "uv_perm", "dv_perm"}
            /\ IsSome(admin_token) /\ IsSome(user_name[t]) THEN {"roles"}
    ELSE IF at \in {"vj_lock", "vl_lock", "cv_lock", "dv_lock", "uv_read", "uv_lock",
                    "d_voice", "vj_read", "vl_read"} THEN {"voice_channels"}
    ELSE {}

\* handle_ping: the pong goes to the peer alone
Ping(s) ==
    /\ pc[s] = "ping"
    /\ Reply(s, "pong")
    /\ Next(s, "loop", NoFrame)
    /\ UNCHANGED << cfgVars, timeVars, authenticated, user_name, channel,
                    chan_tx, voice_channel, client_ip, local, sharedVars, nframes, accepted, calls, expiry_tasks, history_sent, global_rx, chan_rx, chan_sub >>

\* voice-offer, voice-answer, voice-candidate: the frame's text is sent on the
\* global bus as it came
Relay(s) ==
    /\ pc[s] = "relay"
    /\ Publish(frame[s])
    /\ Next(s, "loop", NoFrame)
    /\ UNCHANGED << cfgVars, timeVars, authenticated, user_name, channel,
                    chan_tx, voice_channel, client_ip, local, out, regVars, voiceVars,
                    channels, chan_log, limVars, dbVars, nframes, accepted, calls, expiry_tasks, history_sent, global_rx, chan_rx, chan_sub >>

(***************************************************************************)
(* handle_presence                                                         *)
(***************************************************************************)
\* The limiter's map after a call for key, and whether the call was allowed.
\* A key without an entry gets one only when the call is allowed.
check_rate_limit(map, key, at, limit) ==
    LET times == Get(map, key, << >>) IN
    [ok |-> LimiterAllows(times, at, limit),
     map |-> IF key \in DOMAIN map \/ LimiterAllows(times, at, limit)
             THEN Put(map, key, LimiterNext(times, at, limit))
             ELSE map]

PasswordOkOff(f) == TRUE
PasswordOk(f) == password = None \/ f.password = password

\* What the registration reads of a presence frame: user and publicKey
Registration(f) == [f EXCEPT !.signature = None, !.timestamp = None]
\* The credentials of a frame, with the time at which they were accepted
Accepted(f, at) ==
    [publicKey |-> f.publicKey, signature |-> f.signature,
     timestamp |-> f.timestamp, at |-> at]

HasCredentials(f) ==
    IsSome(f.publicKey) /\ IsSome(f.signature) /\ IsSome(f.timestamp)

\* Lines 158-176: password, then the per-IP limiter when key, signature and
\* timestamp are all present.
PresenceAuth(s) ==
    /\ pc[s] = "p_auth"
    /\ LET f == frame[s]
           r == check_rate_limit(auth_attempts, client_ip[s], now,
                                 get_max_auth_attempts_per_minute)
       IN
       IF authenticated[s]
       THEN Next(s, "p_reg", [f EXCEPT !.password = None]) /\ UNCHANGED << out, auth_attempts >>
       ELSE IF ~PasswordOk(f)
       THEN Fail(s, "invalid-password") /\ UNCHANGED auth_attempts
       ELSE IF ~HasCredentials(f)
       THEN Next(s, "p_reg", [f EXCEPT !.password = None]) /\ UNCHANGED << out, auth_attempts >>
       ELSE /\ auth_attempts' = r.map
            /\ IF r.ok
               THEN Next(s, "p_nonce", [f EXCEPT !.password = None]) /\ UNCHANGED out
               ELSE Fail(s, "auth-rate-limit")
    /\ UNCHANGED << cfgVars, timeVars, authenticated, user_name, channel,
                    chan_tx, voice_channel, client_ip, local, regVars, voiceVars,
                    busVars, message_times, used_nonces, dbVars, nframes, accepted, calls, expiry_tasks, history_sent, global_rx, chan_rx, chan_sub >>

\* security::check_and_store_nonce: the store after the sweep
NoncesRetained(store, at) ==
    [n \in {m \in DOMAIN store : store[m] > at - get_nonce_expiry_seconds}
        |-> store[n]]

NonceFreshOff(store, nonce, at) == TRUE
NonceFresh(store, nonce, at) == nonce \notin DOMAIN NoncesRetained(store, at)

check_and_store_nonce(store, nonce, at) ==
    [ok |-> NonceFresh(store, nonce, at),
     store |-> IF NonceFresh(store, nonce, at)
               THEN Put(NoncesRetained(store, at), nonce, at)
               ELSE NoncesRetained(store, at)]

\* Lines 196-233: the error of the decoding and verification chain, or "ok"
VerifyOutcome(pk, sig, ts) ==
    IF ~(Base64Ok(pk) /\ sig.b64) THEN "invalid-encoding"
    ELSE IF DecodedKeyLen(pk) # KeyBytes THEN "invalid-key-length"
    ELSE IF ~VerifyingKeyOk(pk) THEN "invalid-public-key"
    ELSE IF sig.len # SignatureBytes THEN "invalid-signature-format"
    ELSE IF ~Ed25519Verify(pk, ts, sig) THEN "invalid-signature"
    ELSE "ok"

\* The nonce string format!("{}:{}", pk, timestamp)
NonceOf(pk, t) == << pk, FormatI64(t) >>

\* Lines 178-233: timestamp, nonce, signature.
PresenceNonce(s) ==
    /\ pc[s] = "p_nonce"
    /\ LET f == frame[s]
           pk == Unwrap(f.publicKey)
           sig == Unwrap(f.signature)
           ts == Unwrap(f.timestamp)
           vt == validate_timestamp(ts, now * 1000)
       IN
       IF ~IsSome(vt)
       THEN Fail(s, "invalid-timestamp") /\ UNCHANGED << used_nonces, authenticated >>
       ELSE LET r == check_and_store_nonce(used_nonces, NonceOf(pk, Unwrap(vt)), now) IN
            /\ used_nonces' = r.store
            /\ IF ~r.ok
               THEN Fail(s, "replay-attack") /\ UNCHANGED authenticated
               ELSE IF VerifyOutcome(pk, sig, ts) # "ok"
               THEN Fail(s, VerifyOutcome(pk, sig, ts)) /\ UNCHANGED authenticated
               ELSE /\ authenticated' = [authenticated EXCEPT ![s] = TRUE]
                    /\ Next(s, "p_reg", f)
                    /\ UNCHANGED out
    /\ UNCHANGED << cfgVars, timeVars, user_name, channel, chan_tx, voice_channel,
                    client_ip, local, regVars, voiceVars, busVars,
                    auth_attempts, message_times, dbVars, nframes, accepted, calls, expiry_tasks, history_sent, global_rx, chan_rx, chan_sub >>

\* Lines 237-247 and 278-281: the user name is validated and inserted into
\* the online set; a session that is still unauthenticated is turned away.
PresenceRegister(s) ==
    /\ pc[s] = "p_reg"
    /\ LET f == frame[s] IN
       IF ~authenticated[s]
       THEN Fail(s, "invalid-signature") /\ UNCHANGED << users, accepted >>
       ELSE IF IsSome(f.user) /\ ~validate_user_name(Unwrap(f.user))
       THEN Fail(s, "invalid-username") /\ UNCHANGED << users, accepted >>
       ELSE /\ accepted' = IF HasCredentials(f) THEN Append(accepted, Accepted(f, now))
                                               ELSE accepted
            /\ UNCHANGED out
            /\ IF IsSome(f.user)
               THEN users' = users \cup {Unwrap(f.user)} /\ Next(s, "p_known", Registration(f))
               ELSE UNCHANGED users /\ Next(s, "loop", NoFrame)
    /\ UNCHANGED << cfgVars, timeVars, authenticated, user_name, channel,
                    chan_tx, voice_channel, client_ip, local, known_users, statuses,
                    roles, user_keys, voiceVars, busVars, limVars, dbVars, nframes,
                    calls, expiry_tasks, history_sent, global_rx, chan_rx, chan_sub >>

\* Line 248
PresenceKnown(s) ==
    /\ pc[s] = "p_known"
    /\ known_users' = known_users \cup {Unwrap(frame[s].user)}
    /\ Goto(s, "p_status")
    /\ UNCHANGED << cfgVars, timeVars, authenticated, user_name, channel,
                    chan_tx, voice_channel, client_ip, frame, local, out, users, statuses,
                    roles, user_keys, voiceVars, busVars, limVars, dbVars, nframes, accepted, calls, expiry_tasks, history_sent, global_rx, chan_rx, chan_sub >>

\* Line 249
PresenceStatus(s) ==
    /\ pc[s] = "p_status"
    /\ statuses' = Put(statuses, Unwrap(frame[s].user), "online")
    /\ Goto(s, "p_bstatus")
    /\ UNCHANGED << cfgVars, timeVars, authenticated, user_name, channel,
                    chan_tx, voice_channel, client_ip, frame, local, out, users, known_users,
                    roles, user_keys, voiceVars, busVars, limVars, dbVars, nframes, accepted, calls, expiry_tasks, history_sent, global_rx, chan_rx, chan_sub >>

StatusUpdate(u, st) == [type |-> "status-update", user |-> u, status |-> st]
OnlineUsers(online, all) == [type |-> "online-users", users |-> online, all |-> all]
VoiceUsers(ch, list) == [type |-> "voice-users", channel |-> ch, users |-> list]
RoleUpdate(u, info) == [type |-> "role-update", user |-> u, role |-> info.role,
                        color |-> info.color]

\* Line 251: broadcast_status
PresenceBroadcastStatus(s) ==
    /\ pc[s] = "p_bstatus"
    /\ Publish(StatusUpdate(Unwrap(frame[s].user), "online"))
    /\ Goto(s, "p_busers")
    /\ UNCHANGED << cfgVars, timeVars, authenticated, user_name, channel,
                    chan_tx, voice_channel, client_ip, frame, local, out, regVars, voiceVars,
                    channels, chan_log, limVars, dbVars, nframes, accepted, calls, expiry_tasks, history_sent, global_rx, chan_rx, chan_sub >>

\* helpers::get_user_lists, first lock: the online set is copied
ReadOnline(s, from, to) ==
    /\ pc[s] = from
    /\ local' = [local EXCEPT ![s] = users]
    /\ Goto(s, to)
    /\ UNCHANGED << cfgVars, timeVars, authenticated, user_name, channel,
                    chan_tx, voice_channel, client_ip, frame, out, sharedVars, nframes, accepted, calls, expiry_tasks, history_sent, global_rx, chan_rx, chan_sub >>

\* Line 252: broadcast_users, second lock and the send; line 253
PresenceBroadcastUsers(s) ==
    /\ pc[s] = "p_busers2"
    /\ Publish(OnlineUsers(local[s], known_users))
    /\ user_name' = [user_name EXCEPT ![s] = frame[s].user]
    /\ local' = [local EXCEPT ![s] = {}]
    /\ Goto(s, IF IsSome(frame[s].publicKey) THEN "p_keys" ELSE "p_snapshot")
    /\ UNCHANGED << cfgVars, timeVars, authenticated, channel, chan_tx, voice_channel,
                    client_ip, frame, out, regVars, voiceVars, channels, chan_log,
                    limVars, dbVars, nframes, accepted, calls, expiry_tasks, history_sent, global_rx, chan_rx, chan_sub >>

\* Line 257
PresenceKeys(s) ==
    /\ pc[s] = "p_keys"
    /\ user_keys' = Put(user_keys, Unwrap(frame[s].user), Unwrap(frame[s].publicKey))
    /\ Goto(s, "p_role")
    /\ UNCHANGED << cfgVars, timeVars, authenticated, user_name, channel,
                    chan_tx, voice_channel, client_ip, frame, local, out, users, known_users,
                    statuses, roles, voiceVars, busVars, limVars, dbVars, nframes, accepted, calls, expiry_tasks, history_sent, global_rx, chan_rx, chan_sub >>

\* roles::default_color
default_color(role) ==
    CASE role \in {"Admin", "admin"} -> Some("#eab308")
      [] role \in {"Mod", "mod"} -> Some("#10b981")
      [] role \in {"Owner", "owner"} -> Some("#3b82f6")
      [] OTHER -> None

\* Lines 259-263: db::get_role and the RoleInfo built from the row
PresenceRole(s) ==
    /\ pc[s] = "p_role"
    /\ LET pk == Unwrap(frame[s].publicKey) IN
       IF pk \in DOMAIN db_roles
       THEN /\ local' = [local EXCEPT ![s] =
                   {[role |-> db_roles[pk].role,
                     color |-> IF IsSome(db_roles[pk].color) THEN db_roles[pk].color
                               ELSE default_color(db_roles[pk].role)]}]
            /\ Goto(s, "p_roles")
       ELSE /\ Goto(s, "p_snapshot")
            /\ UNCHANGED local
    /\ UNCHANGED << cfgVars, timeVars, authenticated, user_name, channel,
                    chan_tx, voice_channel, client_ip, frame, out, sharedVars, nframes, accepted, calls, expiry_tasks, history_sent, global_rx, chan_rx, chan_sub >>

\* Line 264
PresenceRoles(s) ==
    /\ pc[s] = "p_roles"
    /\ \E info \in local[s] : roles' = Put(roles, Unwrap(frame[s].user), info)
    /\ Goto(s, "p_brole")
    /\ UNCHANGED << cfgVars, timeVars, authenticated, user_name, channel,
                    chan_tx, voice_channel, client_ip, frame, local, out, users, known_users,
                    statuses, user_keys, voiceVars, busVars, limVars, dbVars, nframes, accepted, calls, expiry_tasks, history_sent, global_rx, chan_rx, chan_sub >>

\* Line 265
PresenceBroadcastRole(s) ==
    /\ pc[s] = "p_brole"
    /\ \E info \in local[s] : Publish(RoleUpdate(Unwrap(frame[s].user), info))
    /\ local' = [local EXCEPT ![s] = {}]
    /\ Goto(s, "p_snapshot")
    /\ UNCHANGED << cfgVars, timeVars, authenticated, user_name, channel,
                    chan_tx, voice_channel, client_ip, frame, out, regVars, voiceVars,
                    channels, chan_log, limVars, dbVars, nframes, accepted, calls, expiry_tasks, history_sent, global_rx, chan_rx, chan_sub >>

\* Lines 270-276: the snapshots sent to the newcomer; the handler returns Ok
PresenceSnapshot(s) ==
    /\ pc[s] = "p_snapshot"
    /\ Free("voice_channels", s)
    /\ Reply(s, "initial-state")
    /\ Next(s, "loop", NoFrame)
    /\ UNCHANGED << cfgVars, timeVars, authenticated, user_name, channel,
                    chan_tx, voice_channel, client_ip, local, sharedVars, nframes, accepted, calls, expiry_tasks, history_sent, global_rx, chan_rx, chan_sub >>


(***************************************************************************)
(* handle_disconnect                                                       *)
(***************************************************************************)
\* Lines 1194-1195: nothing to clean up for a session that never registered
DisconnectUsers(s) ==
    /\ pc[s] = "exit"
    /\ IF IsSome(user_name[s])
       THEN /\ users' = users \ {Unwrap(user_name[s])}
            /\ Goto(s, "d_busers")
            /\ UNCHANGED frame
       ELSE /\ Goto(s, "closed")
            /\ frame' = [frame EXCEPT ![s] = NoFrame]
            /\ UNCHANGED users
    /\ UNCHANGED << cfgVars, timeVars, authenticated, user_name, channel,
                    chan_tx, voice_channel, client_ip, local, out, known_users, statuses,
                    roles, user_keys, voiceVars, busVars, limVars, dbVars, nframes, accepted, calls, expiry_tasks, history_sent, global_rx, chan_rx, chan_sub >>

\* Line 1196: broadcast_users, second lock and the send
DisconnectBroadcastUsers(s) ==
    /\ pc[s] = "d_busers2"
    /\ Publish(OnlineUsers(local[s], known_users))
    /\ local' = [local EXCEPT ![s] = {}]
    /\ Goto(s, "d_voice")
    /\ UNCHANGED << cfgVars, timeVars, authenticated, user_name, channel,
                    chan_tx, voice_channel, client_ip, frame, out, regVars, voiceVars,
                    channels, chan_log, limVars, dbVars, nframes, accepted, calls, expiry_tasks, history_sent, global_rx, chan_rx, chan_sub >>

RoomsOf(u) == {ch \in DOMAIN voice_channels : u \in voice_channels[ch].users}

RemoveMemberOff(map, ch, u) == map
RemoveMember(map, ch, u) ==
    [map EXCEPT ![ch] = [@ EXCEPT !.users = @ \ {u}]]

\* Lines 1198-1206: the first room found that holds the name loses it (the
\* iteration order of the HashMap decides which, if there are several)
DisconnectVoice(s) ==
    /\ pc[s] = "d_voice"
    /\ Free("voice_channels", s)
    /\ LET name == Unwrap(user_name[s]) IN
       IF RoomsOf(name) = {}
       THEN /\ Goto(s, "d_status")
            /\ UNCHANGED << voice_channels, local >>
       ELSE \E ch \in RoomsOf(name) :
            /\ voice_channels' = RemoveMember(voice_channels, ch, name)
            /\ local' = [local EXCEPT ![s] = {ch}]
            /\ Goto(s, "d_bvoice")
    /\ UNCHANGED << cfgVars, timeVars, authenticated, user_name, channel,
                    chan_tx, voice_channel, client_ip, frame, out, regVars, busVars,
                    limVars, dbVars, nframes, accepted, calls, expiry_tasks, history_sent, global_rx, chan_rx, chan_sub >>

MembersOf(ch) ==
    IF ch \in DOMAIN voice_channels THEN voice_channels[ch].users ELSE {}

\* helpers::broadcast_voice: the member list is copied under the lock
ReadVoice(s, from, to) ==
    /\ pc[s] = from
    /\ Free("voice_channels", s)
    /\ \E ch \in local[s] :
          local' = [local EXCEPT ![s] = {[channel |-> ch, users |-> MembersOf(ch)]}]
    /\ Goto(s, to)
    /\ UNCHANGED << cfgVars, timeVars, authenticated, user_name, channel,
                    chan_tx, voice_channel, client_ip, frame, out, sharedVars, nframes, accepted, calls, expiry_tasks, history_sent, global_rx, chan_rx, chan_sub >>

\* helpers::broadcast_voice: the copy is sent
SendVoice(s, from, to) ==
    /\ pc[s] = from
    /\ \E r \in local[s] : Publish(VoiceUsers(r.channel, r.users))
    /\ local' = [local EXCEPT ![s] = {}]
    /\ Goto(s, to)
    /\ UNCHANGED << cfgVars, timeVars, authenticated, user_name, channel,
                    chan_tx, voice_channel, client_ip, frame, out, regVars, voiceVars,
                    channels, chan_log, limVars, dbVars, nframes, accepted, calls, expiry_tasks, history_sent, global_rx, chan_rx, chan_sub >>

\* Line 1213
DisconnectStatus(s) ==
    /\ pc[s] = "d_status"
    /\ statuses' = Put(statuses, Unwrap(user_name[s]), "offline")
    /\ Goto(s, "d_bstatus")
    /\ UNCHANGED << cfgVars, timeVars, authenticated, user_name, channel,
                    chan_tx, voice_channel, client_ip, frame, local, out, users, known_users,
                    roles, user_keys, voiceVars, busVars, limVars, dbVars, nframes, accepted, calls, expiry_tasks, history_sent, global_rx, chan_rx, chan_sub >>

\* Line 1214; the task ends
DisconnectBroadcastStatus(s) ==
    /\ pc[s] = "d_bstatus"
    /\ Publish(StatusUpdate(Unwrap(user_name[s]), "offline"))
    /\ frame' = [frame EXCEPT ![s] = NoFrame]
    /\ Goto(s, "closed")
    /\ UNCHANGED << cfgVars, timeVars, authenticated, user_name, channel,
                    chan_tx, voice_channel, client_ip, local, out, regVars, voiceVars,
                    channels, chan_log, limVars, dbVars, nframes, accepted, calls, expiry_tasks, history_sent, global_rx, chan_rx, chan_sub >>


(***************************************************************************)
(* handle_chat                                                             *)
(***************************************************************************)
\* Lines 759-764: the per-user limiter, for a session that has a name
ChatLimit(s) ==
    /\ pc[s] = "c_limit"
    /\ IF IsSome(user_name[s])
       THEN LET r == check_rate_limit(message_times, Unwrap(user_name[s]), now,
                                      get_max_messages_per_minute)
            IN /\ message_times' = r.map
               /\ IF r.ok
                  THEN Goto(s, "c_insert") /\ UNCHANGED << out, frame >>
                  ELSE Reply(s, "message-rate-limit") /\ Next(s, "loop", NoFrame)
       ELSE Goto(s, "c_insert") /\ UNCHANGED << out, frame, message_times >>
    /\ UNCHANGED << cfgVars, timeVars, authenticated, user_name, channel,
                    chan_tx, voice_channel, client_ip, local, regVars, voiceVars,
                    busVars, auth_attempts, used_nonces, dbVars, nframes, accepted, calls, expiry_tasks, history_sent, global_rx, chan_rx, chan_sub >>

\* The SERIAL sequence behind messages.id
NextSerialStuck(n) == n
NextSerial(n) == n + 1

\* The row stored for a chat frame and the event sent for it: the frame with
\* the session's channel written over its "channel" field
ChatRow(f, ch) == [f EXCEPT !.channel = ch]
ChatEvent(f, ch, id) == [type |-> "chat", channel |-> ch, id |-> id, user |-> f.user,
                         text |-> f.text]

\* DateTime::parse_from_rfc3339 of a string field: the instant it denotes, in
\* seconds, or nothing
parse_from_rfc3339(field) ==
    IF IsSome(field) /\ Unwrap(field).rfc3339 THEN Some(Unwrap(field).secs) ELSE None

\* helpers::sanitize_message_timestamp: the frame's timestamp if it parses,
\* the clock otherwise
sanitize_message_timestamp(f, at) ==
    IF IsSome(parse_from_rfc3339(f.timestamp)) THEN Unwrap(parse_from_rfc3339(f.timestamp))
    ELSE at

ClampExpiry(expiry, timestamp) ==
    LET min_allowed == timestamp + MIN_EPHEMERAL_SECONDS
        max_allowed == timestamp + MAX_EPHEMERAL_SECONDS
        raised == IF expiry < min_allowed THEN min_allowed ELSE expiry
    IN IF raised > max_allowed THEN max_allowed ELSE raised

\* Lines 767-791: a frame with a parseable expiresAt gets the clamped expiry
\* and ephemeral: true; otherwise both fields are removed.  Frames built
\* without these fields stay as they are.
EphemeralFields(f, at) ==
    IF "expiresAt" \notin DOMAIN f THEN f
    ELSE LET timestamp == sanitize_message_timestamp(f, at)
             parsed == parse_from_rfc3339(f.expiresAt)
         IN IF IsSome(parsed)
            THEN [f EXCEPT !.timestamp = Some([rfc3339 |-> TRUE, secs |-> timestamp]),
                           !.expiresAt = Some([rfc3339 |-> TRUE,
                                               secs |-> ClampExpiry(Unwrap(parsed), timestamp)]),
                           !.ephemeral = TRUE]
            ELSE [f EXCEPT !.timestamp = Some([rfc3339 |-> TRUE, secs |-> timestamp]),
                           !.expiresAt = None,
                           !.ephemeral = FALSE]

\* Lines 796-804 and 847: the INSERT returns the new id, or fails and the
\* handler returns after logging
ChatInsert(s) ==
    /\ pc[s] = "c_insert"
    /\ \/ /\ messages' = Put(messages, next_id,
                              ChatRow(EphemeralFields(frame[s], now), channel[s]))
          /\ next_id' = NextSerial(next_id)
          /\ local' = [local EXCEPT ![s] = {[id |-> next_id, bus |-> 0]}]
          /\ Goto(s, "c_chan")
          /\ frame' = [frame EXCEPT ![s] = EphemeralFields(@, now)]
       \/ /\ Next(s, "loop", NoFrame)
          /\ UNCHANGED << messages, next_id, local >>
    /\ UNCHANGED << cfgVars, timeVars, authenticated, user_name, channel,
                    chan_tx, voice_channel, client_ip, out, regVars, voiceVars,
                    busVars, limVars, reactions, db_channels, db_roles, db_voice,
                    nframes, accepted, calls, expiry_tasks, history_sent, global_rx, chan_rx, chan_sub >>

\* Line 808: the bus of the session's channel is looked up (or made)
ChatChannel(s) ==
    /\ pc[s] = "c_chan"
    /\ get_or_create_channel(channel[s])
    /\ local' = [local EXCEPT ![s] = {[r EXCEPT !.bus = BusOf(channel[s])] : r \in local[s]}]
    /\ Goto(s, "c_send")
    /\ UNCHANGED << cfgVars, timeVars, authenticated, user_name, channel,
                    chan_tx, voice_channel, client_ip, frame, out, regVars, voiceVars,
                    tx, limVars, dbVars, nframes, accepted, calls, expiry_tasks, history_sent, global_rx, chan_rx, chan_sub >>

\* chan_tx.send: one event on a channel bus
PublishOn(bus, ev) == chan_log' = [chan_log EXCEPT ![bus] = Append(@, ev)]

\* Lines 813-816: the task spawned for a message with an expiry
ExpiryTask(id, ch, expiry) ==
    [id |-> id, channel |-> ch, expiry |-> expiry, pc |-> "start", wake |-> 0, bus |-> 0]

\* Lines 809-816: the message goes out with its id; for an ephemeral message
\* the deletion task is spawned
ChatSend(s) ==
    /\ pc[s] = "c_send"
    /\ \E r \in local[s] :
          /\ PublishOn(r.bus, ChatEvent(frame[s], channel[s], r.id))
          /\ expiry_tasks' =
                IF "expiresAt" \in DOMAIN frame[s] /\ IsSome(frame[s].expiresAt)
                THEN expiry_tasks \cup
                        {ExpiryTask(r.id, channel[s], Unwrap(frame[s].expiresAt).secs)}
                ELSE expiry_tasks
    /\ local' = [local EXCEPT ![s] = {}]
    /\ Next(s, "loop", NoFrame)
    /\ UNCHANGED << cfgVars, timeVars, authenticated, user_name, channel,
                    chan_tx, voice_channel, client_ip, out, regVars, voiceVars,
                    channels, tx, limVars, dbVars, nframes, accepted, calls, history_sent, global_rx, chan_rx, chan_sub >>

(***************************************************************************)
(* Voice rooms: handle_voice_join, handle_voice_leave,                     *)
(* handle_create_voice_channel, handle_delete_voice_channel                *)
(***************************************************************************)
VoiceChannelState(users_, quality, bitrate) ==
    [users |-> users_, quality |-> quality, bitrate |-> bitrate]

VoiceChannelAdd(ch, info) ==
    [type |-> "voice-channel-add", channel |-> ch, quality |-> info.quality,
     bitrate |-> info.bitrate]
VoiceChannelRemove(ch) == [type |-> "voice-channel-remove", channel |-> ch]

\* Lines 1144-1146: the user leaves every room
LeaveAllOff(map, u) == map
LeaveAll(map, u) == [ch \in DOMAIN map |-> [map[ch] EXCEPT !.users = @ \ {u}]]

\* Lines 1139-1155: one section under the voice_channels lock
VoiceJoinLock(s) ==
    /\ pc[s] = "vj_lock"
    /\ Free("voice_channels", s)
    /\ LET f == frame[s] IN
       IF IsSome(f.user) /\ IsSome(f.channel)
       THEN LET u == Unwrap(f.user)
                ch == Unwrap(f.channel)
                left == LeaveAll(voice_channels, u)
                entry == IF ch \in DOMAIN left THEN left[ch]
                         ELSE VoiceChannelState({}, DEFAULT_VOICE_QUALITY,
                                                Some(DEFAULT_VOICE_BITRATE))
            IN /\ voice_channels' = Put(left, ch, [entry EXCEPT !.users = @ \cup {u}])
               /\ voice_channel' = [voice_channel EXCEPT ![s] = Some(ch)]
               /\ local' = [local EXCEPT ![s] = {ch}]
               /\ Goto(s, IF ch \in DOMAIN voice_channels THEN "vj_read" ELSE "vj_bnew")
       ELSE /\ UNCHANGED << voice_channels, voice_channel >>
            /\ local' = [local EXCEPT ![s] = IF IsSome(f.channel) THEN {Unwrap(f.channel)} ELSE {}]
            /\ Goto(s, IF IsSome(f.channel) THEN "vj_read" ELSE "relay")
    /\ UNCHANGED << cfgVars, timeVars, authenticated, user_name, channel,
                    chan_tx, client_ip, frame, out, regVars, busVars,
                    limVars, dbVars, nframes, accepted, calls, expiry_tasks, history_sent, global_rx, chan_rx, chan_sub >>

\* Lines 1157-1159: broadcast_new_voice_channel with the new room's defaults
VoiceJoinBroadcastNew(s) ==
    /\ pc[s] = "vj_bnew"
    /\ \E ch \in local[s] :
          Publish(VoiceChannelAdd(ch, VoiceChannelState({}, DEFAULT_VOICE_QUALITY,
                                                        Some(DEFAULT_VOICE_BITRATE))))
    /\ Goto(s, "vj_read")
    /\ UNCHANGED << cfgVars, timeVars, authenticated, user_name, channel,
                    chan_tx, voice_channel, client_ip, frame, local, out, regVars,
                    voiceVars, channels, chan_log, limVars, dbVars, nframes, accepted, calls, expiry_tasks, history_sent, global_rx, chan_rx, chan_sub >>

\* Lines 1177-1186: the user leaves the room named in the frame
VoiceLeaveLock(s) ==
    /\ pc[s] = "vl_lock"
    /\ Free("voice_channels", s)
    /\ LET f == frame[s] IN
       IF IsSome(f.user) /\ IsSome(f.channel)
       THEN LET u == Unwrap(f.user)
                ch == Unwrap(f.channel)
            IN /\ voice_channels' = IF ch \in DOMAIN voice_channels
                                    THEN RemoveMember(voice_channels, ch, u)
                                    ELSE voice_channels
               /\ voice_channel' = [voice_channel EXCEPT ![s] =
                                        IF @ = Some(ch) THEN None ELSE @]
               /\ local' = [local EXCEPT ![s] = {ch}]
               /\ Goto(s, "vl_read")
       ELSE /\ UNCHANGED << voice_channels, voice_channel, local >>
            /\ Goto(s, "relay")
    /\ UNCHANGED << cfgVars, timeVars, authenticated, user_name, channel,
                    chan_tx, client_ip, frame, out, regVars, busVars,
                    limVars, dbVars, nframes, accepted, calls, expiry_tasks, history_sent, global_rx, chan_rx, chan_sub >>

\* eq_ignore_ascii_case against CHANNEL_MANAGE_ROLES
AsciiLower(role) ==
    CASE role \in {"Admin", "ADMIN", "admin"} -> "admin"
      [] role \in {"Mod", "MOD", "mod"} -> "mod"
      [] role \in {"Owner", "OWNER", "owner"} -> "owner"
      [] OTHER -> role

can_manage_channels_open(user) == TRUE
can_manage_channels(user) ==
    \/ admin_token = None
    \/ user \in DOMAIN roles /\ AsciiLower(roles[user].role) \in {"admin", "mod", "owner"}

\* Lines 553-575 and 716-738: the checks that create and delete share; the
\* error to send, or "ok"
ManageCheck(s) ==
    IF ~validate_channel_name(Unwrap(frame[s].name)) THEN "invalid-channel-name"
    ELSE IF ~IsSome(user_name[s]) THEN "channel-permission-denied"
    ELSE IF ~can_manage_channels(Unwrap(user_name[s])) THEN "channel-permission-denied"
    ELSE "ok"

\* Lines 577-585: the quality label of the frame, trimmed, or the default
QualityOf(f) ==
    IF IsSome(f.quality) /\ Trim(Unwrap(f.quality)) # << >>
    THEN Trim(Unwrap(f.quality)) ELSE DEFAULT_VOICE_QUALITY

\* Lines 553-601: the checks of create-voice-channel
CreateVoiceCheck(s) ==
    /\ pc[s] = "cv_perm"
    /\ LET f == frame[s]
           b == f.bitrate
           rate == IF b.kind = "int" THEN validate_bitrate(b.val) ELSE None
       IN
       IF ~IsSome(f.name)
       THEN Next(s, "loop", NoFrame) /\ UNCHANGED << out, local >>
       ELSE IF ManageCheck(s) # "ok"
       THEN Reply(s, ManageCheck(s)) /\ Next(s, "loop", NoFrame) /\ UNCHANGED local
       ELSE IF ~validate_voice_quality(QualityOf(f))
       THEN Reply(s, "invalid-voice-quality") /\ Next(s, "loop", NoFrame) /\ UNCHANGED local
       ELSE IF b.kind \in {"int", "other"} /\ ~IsSome(rate)
       THEN Reply(s, "invalid-voice-bitrate") /\ Next(s, "loop", NoFrame) /\ UNCHANGED local
       ELSE /\ local' = [local EXCEPT ![s] =
                   {VoiceChannelState({}, QualityOf(f),
                        CASE b.kind = "absent" -> Some(DEFAULT_VOICE_BITRATE)
                          [] b.kind = "null" -> None
                          [] OTHER -> rate)}]
            /\ Goto(s, "cv_lock")
            /\ UNCHANGED << out, frame >>
    /\ UNCHANGED << cfgVars, timeVars, authenticated, user_name, channel,
                    chan_tx, voice_channel, client_ip, sharedVars, nframes, accepted, calls, expiry_tasks, history_sent, global_rx, chan_rx, chan_sub >>

\* Lines 603-610: the room is inserted unless the name is taken
CreateVoiceLock(s) ==
    /\ pc[s] = "cv_lock"
    /\ Free("voice_channels", s)
    /\ LET ch == Unwrap(frame[s].name) IN
       IF ch \in DOMAIN voice_channels
       THEN /\ Next(s, "loop", NoFrame)
            /\ local' = [local EXCEPT ![s] = {}]
            /\ UNCHANGED voice_channels
       ELSE /\ \E info \in local[s] : voice_channels' = Put(voice_channels, ch, info)
            /\ Goto(s, "cv_db")
            /\ UNCHANGED << frame, local >>
    /\ UNCHANGED << cfgVars, timeVars, authenticated, user_name, channel,
                    chan_tx, voice_channel, client_ip, out, regVars, busVars,
                    limVars, dbVars, nframes, accepted, calls, expiry_tasks, history_sent, global_rx, chan_rx, chan_sub >>

\* Line 611: db::add_voice_channel, ON CONFLICT DO NOTHING; an error is dropped
CreateVoiceDb(s) ==
    /\ pc[s] = "cv_db"
    /\ LET ch == Unwrap(frame[s].name) IN
       \/ \E info \in local[s] :
             db_voice' = IF ch \in DOMAIN db_voice THEN db_voice
                         ELSE Put(db_voice, ch, [quality |-> info.quality,
                                                 bitrate |-> info.bitrate])
       \/ UNCHANGED db_voice
    /\ Goto(s, "cv_bnew")
    /\ UNCHANGED << cfgVars, timeVars, authenticated, user_name, channel,
                    chan_tx, voice_channel, client_ip, frame, local, out, regVars,
                    voiceVars, busVars, limVars, messages, next_id, reactions,
                    db_channels, db_roles, nframes, accepted, calls, expiry_tasks, history_sent, global_rx, chan_rx, chan_sub >>

\* Line 612: broadcast_new_voice_channel
CreateVoiceBroadcast(s) ==
    /\ pc[s] = "cv_bnew"
    /\ \E info \in local[s] : Publish(VoiceChannelAdd(Unwrap(frame[s].name), info))
    /\ local' = [local EXCEPT ![s] = {}]
    /\ Next(s, "loop", NoFrame)
    /\ UNCHANGED << cfgVars, timeVars, authenticated, user_name, channel,
                    chan_tx, voice_channel, client_ip, out, regVars,
                    voiceVars, channels, chan_log, limVars, dbVars, nframes, accepted, calls, expiry_tasks, history_sent, global_rx, chan_rx, chan_sub >>

\* Lines 716-738: the checks of delete-voice-channel
DeleteVoiceCheck(s) ==
    /\ pc[s] = "dv_perm"
    /\ IF ~IsSome(frame[s].name)
       THEN Next(s, "loop", NoFrame) /\ UNCHANGED out
       ELSE IF ManageCheck(s) # "ok"
       THEN Reply(s, ManageCheck(s)) /\ Next(s, "loop", NoFrame)
       ELSE Goto(s, "dv_lock") /\ UNCHANGED << out, frame >>
    /\ UNCHANGED << cfgVars, timeVars, authenticated, user_name, channel,
                    chan_tx, voice_channel, client_ip, local, sharedVars, nframes, accepted, calls, expiry_tasks, history_sent, global_rx, chan_rx, chan_sub >>

\* Line 742: the room goes, with whoever is in it
DeleteVoiceLock(s) ==
    /\ pc[s] = "dv_lock"
    /\ Free("voice_channels", s)
    /\ voice_channels' = Del(voice_channels, Unwrap(frame[s].name))
    /\ Goto(s, "dv_db")
    /\ UNCHANGED << cfgVars, timeVars, authenticated, user_name, channel,
                    chan_tx, voice_channel, client_ip, frame, local, out, regVars,
                    busVars, limVars, dbVars, nframes, accepted, calls, expiry_tasks, history_sent, global_rx, chan_rx, chan_sub >>

\* Line 743: db::remove_voice_channel; an error is dropped
DeleteVoiceDb(s) ==
    /\ pc[s] = "dv_db"
    /\ \/ db_voice' = Del(db_voice, Unwrap(frame[s].name))
       \/ UNCHANGED db_voice
    /\ Goto(s, "dv_brm")
    /\ UNCHANGED << cfgVars, timeVars, authenticated, user_name, channel,
                    chan_tx, voice_channel, client_ip, frame, local, out, regVars,
                    voiceVars, busVars, limVars, messages, next_id, reactions,
                    db_channels, db_roles, nframes, accepted, calls, expiry_tasks, history_sent, global_rx, chan_rx, chan_sub >>

\* Lines 744-747: broadcast_remove_voice_channel; the session forgets the room
DeleteVoiceBroadcast(s) ==
    /\ pc[s] = "dv_brm"
    /\ Publish(VoiceChannelRemove(Unwrap(frame[s].name)))
    /\ voice_channel' = [voice_channel EXCEPT ![s] =
                             IF @ = frame[s].name THEN None ELSE @]
    /\ Next(s, "loop", NoFrame)
    /\ UNCHANGED << cfgVars, timeVars, authenticated, user_name, channel,
                    chan_tx, client_ip, local, out, regVars,
                    voiceVars, channels, chan_log, limVars, dbVars, nframes, accepted, calls, expiry_tasks, history_sent, global_rx, chan_rx, chan_sub >>

(***************************************************************************)
(* handle_react                                                            *)
(***************************************************************************)
\* Lines 1013-1021: the emoji of the frame is acceptable
EmojiOk(raw) ==
    LET emoji == Trim(raw) IN
    /\ emoji # << >>
    /\ StrLen(emoji) <= EmojiMax
    /\ \A i \in 1 .. Len(emoji) : ~IsWhitespace(emoji[i])

\* db::get_reaction_summary: emoji to the sorted list of the users
ReactionSummary(table, id) ==
    [e \in {r.emoji : r \in {x \in table : x.message_id = id}} |->
        Sorted({r.user_name : r \in {x \in table : x.message_id = id /\ x.emoji = e}})]

ReactionUpdate(ch, id, summary) ==
    [type |-> "reaction-update", channel |-> ch, messageId |-> id, reactions |-> summary]

\* Lines 986-1044: the checks of the frame, and db::get_message_channel
ReactLookup(s) ==
    /\ pc[s] = "r_lookup"
    /\ LET f == frame[s]
           refuse(code) == Reply(s, code) /\ Next(s, "loop", NoFrame) /\ UNCHANGED local
       IN
       IF ~IsSome(user_name[s]) THEN refuse("not-authenticated")
       ELSE IF ~IsSome(f.messageId) THEN refuse("invalid-message-id")
       ELSE IF ~IsSome(f.action) THEN refuse("invalid-reaction-action")
       ELSE IF ~IsSome(f.emoji) \/ ~EmojiOk(Unwrap(f.emoji)) THEN refuse("invalid-emoji")
       ELSE IF Unwrap(f.messageId) > I32Max \/ Unwrap(f.messageId) < -I32Max - 1
       THEN refuse("invalid-message-id")
       ELSE \/ refuse("reaction-failed")
            \/ IF Unwrap(f.messageId) \notin DOMAIN messages
               THEN refuse("message-not-found")
               ELSE IF Unwrap(f.action) \notin {"add", "remove"}
               THEN refuse("invalid-reaction-action")
               ELSE /\ local' = [local EXCEPT ![s] = {messages[Unwrap(f.messageId)].channel}]
                    /\ Goto(s, "r_write")
                    /\ UNCHANGED << out, frame >>
    /\ UNCHANGED << cfgVars, timeVars, authenticated, user_name, channel,
                    chan_tx, voice_channel, client_ip, sharedVars, nframes, accepted, calls, expiry_tasks, history_sent, global_rx, chan_rx, chan_sub >>

\* Lines 1046-1062: db::add_reaction or db::remove_reaction
ReactWrite(s) ==
    /\ pc[s] = "r_write"
    /\ LET f == frame[s]
           row == [message_id |-> Unwrap(f.messageId), user_name |-> Unwrap(user_name[s]),
                   emoji |-> Trim(Unwrap(f.emoji))]
       IN
       \/ /\ Reply(s, "reaction-failed")
          /\ Next(s, "loop", NoFrame)
          /\ local' = [local EXCEPT ![s] = {}]
          /\ UNCHANGED reactions
       \/ /\ Unwrap(f.action) = "add" => row.message_id \in DOMAIN messages
          /\ reactions' = IF Unwrap(f.action) = "add" THEN reactions \cup {row}
                          ELSE reactions \ {row}
          /\ Goto(s, "r_summary")
          /\ UNCHANGED << out, frame, local >>
    /\ UNCHANGED << cfgVars, timeVars, authenticated, user_name, channel,
                    chan_tx, voice_channel, client_ip, regVars, voiceVars,
                    busVars, limVars, messages, next_id, db_channels, db_roles, db_voice,
                    nframes, accepted, calls, expiry_tasks, history_sent, global_rx, chan_rx, chan_sub >>

\* Lines 1064-1070: db::get_reaction_summary
ReactSummary(s) ==
    /\ pc[s] = "r_summary"
    /\ \/ /\ Next(s, "loop", NoFrame)
          /\ local' = [local EXCEPT ![s] = {}]
       \/ /\ local' = [local EXCEPT ![s] =
                {[channel |-> ch, bus |-> 0,
                  reactions |-> ReactionSummary(reactions, Unwrap(frame[s].messageId))] :
                 ch \in local[s]}]
          /\ Goto(s, "r_chan")
          /\ UNCHANGED frame
    /\ UNCHANGED << cfgVars, timeVars, authenticated, user_name, channel,
                    chan_tx, voice_channel, client_ip, out, sharedVars, nframes, accepted, calls, expiry_tasks, history_sent, global_rx, chan_rx, chan_sub >>

\* Line 1078: the bus of the message's channel is looked up (or made)
ReactChannel(s) ==
    /\ pc[s] = "r_chan"
    /\ \E r \in local[s] :
          /\ get_or_create_channel(r.channel)
          /\ local' = [local EXCEPT ![s] = {[r EXCEPT !.bus = BusOf(r.channel)]}]
    /\ Goto(s, "r_send")
    /\ UNCHANGED << cfgVars, timeVars, authenticated, user_name, channel,
                    chan_tx, voice_channel, client_ip, frame, out, regVars, voiceVars,
                    tx, limVars, dbVars, nframes, accepted, calls, expiry_tasks, history_sent, global_rx, chan_rx, chan_sub >>

\* Line 1079: the update goes out
ReactSend(s) ==
    /\ pc[s] = "r_send"
    /\ \E r \in local[s] :
          PublishOn(r.bus, ReactionUpdate(r.channel, Unwrap(frame[s].messageId), r.reactions))
    /\ local' = [local EXCEPT ![s] = {}]
    /\ Next(s, "loop", NoFrame)
    /\ UNCHANGED << cfgVars, timeVars, authenticated, user_name, channel,
                    chan_tx, voice_channel, client_ip, out, regVars, voiceVars,
                    channels, tx, limVars, dbVars, nframes, accepted, calls, expiry_tasks, history_sent, global_rx, chan_rx, chan_sub >>

(***************************************************************************)
(* Frames a client may send.                                               *)
(***************************************************************************)
PresenceFrame(user, pw, pk, sig, ts) ==
    [type |-> "presence", user |-> user, password |-> pw, publicKey |-> pk,
     signature |-> sig, timestamp |-> ts]

\* Seconds by which a client's timestamp may differ from the server's clock.
TsOffsets == {-61, -60, 0, 61}
AuthTimeSteps == {RateWindowSecs + 1}

GoodCredentials(k, at) ==
    << Some(k), Some(Sig(k, TsStr(FALSE, at * 1000))), Some(TsStr(FALSE, at * 1000)) >>

\* Key, signature and timestamp strings of a presence frame at time at: a
\* correct signature over a timestamp at every offset and over one written
\* with "+", and one for every way of being malformed or missing.
Credentials(at) ==
    LET good(off) == TsStr(FALSE, (at + off) * 1000) IN
    {<< Some("k1"), Some(Sig("k1", good(off))), Some(good(off)) >> : off \in TsOffsets}
    \cup {<< Some(k), Some(Sig(k, good(0))), Some(good(0)) >> : k \in BadKeys}
    \cup {<< Some("k1"), Some(Sig("k1", TsStr(TRUE, at * 1000))), Some(TsStr(TRUE, at * 1000)) >>,
          << Some("k1"), Some(Sig("k1", TsGarbage)), Some(TsGarbage) >>,
          << Some("k1"), Some(Sig("k2", good(0))), Some(good(0)) >>,
          << Some("k1"), Some(Sig("k1", good(-1))), Some(good(0)) >>,
          << Some("k1"), Some(SigBadB64("k1", good(0))), Some(good(0)) >>,
          << Some("k1"), Some(SigShort("k1", good(0))), Some(good(0)) >>,
          << Some("k1"), None, None >>}

\* Presence frames: every kind of credentials with the right password, of
\* which the one signed now carries a user name; a frame of another key
\* without a name and one with an invalid name; the frames that fail at the
\* password; the bare frames.
PresenceFrames(at) ==
    {PresenceFrame(IF validate_timestamp(Unwrap(c[3]), at * 1000) # None
                      /\ c # GoodCredentials("k1", at)
                      /\ Unwrap(c[1]) \in GoodKeys
                      /\ Ed25519Verify(Unwrap(c[1]), Unwrap(c[3]), Unwrap(c[2]))
                   THEN None ELSE Some(Alice),
                   Some("pw"), c[1], c[2], c[3]) : c \in Credentials(at) \ {<< Some("k1"), None, None >>}}
    \cup {PresenceFrame(u, Some("pw"), c[1], c[2], c[3]) :
            u \in {None, Some(<< " ", "b" >>)}, c \in {GoodCredentials("k2", at)}}
    \cup {PresenceFrame(Some(Alice), pw, c[1], c[2], c[3]) :
            pw \in {None, Some("wrong")}, c \in {GoodCredentials("k1", at)}}
    \cup {PresenceFrame(Some(Alice), Some("wrong"), Some("k_short"), None, None),
          PresenceFrame(Some(Alice), Some("pw"), Some("k1"), None, None),
          PresenceFrame(Some(Alice), Some("pw"), None, None, None),
          PresenceFrame(Some(Alice), None, None, None, None)}

PingFrame == [type |-> "ping"]
OfferFrame == [type |-> "voice-offer"]

(***************************************************************************)
(* The authentication pipeline: connections, presence frames with every    *)
(* kind of credentials, frames other than presence, and time.              *)
(***************************************************************************)
InitAuth == InitState({Some("pw")}, {None}, {EmptyMap}, {EmptyMap})

NextAuth ==
    \/ Tick(AuthTimeSteps, AuthTicks)
    \/ \E s \in Sessions, ip \in ClientIps : Connect(s, ip)
    \/ \E s \in Sessions : \E f \in PresenceFrames(now) \cup {PingFrame, OfferFrame} :
          RecvFrame(s, f, AuthFrames)
    \/ \E s \in Sessions : RecvNonText(s)
    \/ \E s \in Sessions : Ping(s)
    \/ \E s \in Sessions : Relay(s)
    \/ \E s \in Sessions : PresenceAuth(s)
    \/ \E s \in Sessions : PresenceNonce(s)
    \/ \E s \in Sessions : PresenceRegister(s)
    \/ \E s \in Sessions : PresenceKnown(s)
    \/ \E s \in Sessions : PresenceStatus(s)
    \/ \E s \in Sessions : PresenceBroadcastStatus(s)
    \/ \E s \in Sessions : ReadOnline(s, "p_busers", "p_busers2")
    \/ \E s \in Sessions : PresenceBroadcastUsers(s)
    \/ \E s \in Sessions : PresenceKeys(s)
    \/ \E s \in Sessions : PresenceRole(s)
    \/ \E s \in Sessions : PresenceSnapshot(s)
    \/ \E s \in Sessions : DisconnectUsers(s)
    \/ \E s \in Sessions : ReadOnline(s, "d_busers", "d_busers2")
    \/ \E s \in Sessions : DisconnectBroadcastUsers(s)
    \/ \E s \in Sessions : DisconnectVoice(s)
    \/ \E s \in Sessions : DisconnectStatus(s)
    \/ \E s \in Sessions : DisconnectBroadcastStatus(s)

SpecAuth == InitAuth /\ [][NextAuth]_vars


(***************************************************************************)
(* The registry on a server without password: sessions are authenticated   *)
(* from the start, register names with or without credentials, and leave.  *)
(***************************************************************************)
InitPresence == InitState({None}, {None}, {EmptyMap}, {EmptyMap})

RegistryFrames(at) ==
    {PresenceFrame(Some(Alice), None, c[1], c[2], c[3]) :
        c \in {GoodCredentials("k1", at), << None, None, None >>}}
    \cup {PresenceFrame(Some(u), None, None, None, None) : u \in {Bob, << "a", "!" >>}}

NextPresence ==
    \/ \E s \in Sessions : Connect(s, "ip1")
    \/ \E s \in Sessions : \E f \in RegistryFrames(now) : RecvFrame(s, f, RegistryFrameCount)
    \/ \E s \in Sessions : RecvNonText(s)
    \/ \E s \in Sessions : PresenceAuth(s)
    \/ \E s \in Sessions : PresenceRegister(s)
    \/ \E s \in Sessions : PresenceKnown(s)
    \/ \E s \in Sessions : PresenceStatus(s)
    \/ \E s \in Sessions : PresenceBroadcastStatus(s)
    \/ \E s \in Sessions : ReadOnline(s, "p_busers", "p_busers2")
    \/ \E s \in Sessions : PresenceBroadcastUsers(s)
    \/ \E s \in Sessions : PresenceKeys(s)
    \/ \E s \in Sessions : PresenceRole(s)
    \/ \E s \in Sessions : PresenceSnapshot(s)
    \/ \E s \in Sessions : DisconnectUsers(s)
    \/ \E s \in Sessions : ReadOnline(s, "d_busers", "d_busers2")
    \/ \E s \in Sessions : DisconnectBroadcastUsers(s)
    \/ \E s \in Sessions : DisconnectVoice(s)
    \/ \E s \in Sessions : DisconnectStatus(s)
    \/ \E s \in Sessions : DisconnectBroadcastStatus(s)

SpecPresence == InitPresence /\ [][NextPresence]_vars

(***************************************************************************)
(* Chat on a server without password: sessions may register a name, and    *)
(* send chat frames whether they have one or not.                          *)
(***************************************************************************)
ChatFrame(user, text) == [type |-> "chat", user |-> user, text |-> text, channel |-> None]

ChatFrames ==
    {PresenceFrame(Some(Alice), None, None, None, None), ChatFrame(Some(Bob), "hi")}

NextChat ==
    \/ Tick({RateWindowSecs + 1}, ChatTicks)
    \/ \E s \in Sessions : Connect(s, "ip1")
    \/ \E s \in Sessions : \E f \in ChatFrames : RecvFrame(s, f, ChatFrameCount)
    \/ \E s \in Sessions : PresenceAuth(s)
    \/ \E s \in Sessions : PresenceRegister(s)
    \/ \E s \in Sessions : PresenceKnown(s)
    \/ \E s \in Sessions : PresenceStatus(s)
    \/ \E s \in Sessions : PresenceBroadcastStatus(s)
    \/ \E s \in Sessions : ReadOnline(s, "p_busers", "p_busers2")
    \/ \E s \in Sessions : PresenceBroadcastUsers(s)
    \/ \E s \in Sessions : PresenceSnapshot(s)
    \/ \E s \in Sessions : ChatLimit(s)
    \/ \E s \in Sessions : ChatInsert(s)
    \/ \E s \in Sessions : ChatChannel(s)
    \/ \E s \in Sessions : ChatSend(s)

SpecChat == InitPresence /\ [][NextChat]_vars

(***************************************************************************)
(* Voice rooms on a server without password and without admin token: a     *)
(* session may register, join and leave rooms under any user name, create  *)
(* and delete rooms, and disconnect.                                       *)
(***************************************************************************)
Lobby == << "1" >>
Stage == << "s" >>

VoiceFrame(type, user, ch) == [type |-> type, user |-> user, channel |-> ch]
ManageVoiceFrame(type, name) ==
    [type |-> type, name |-> name, quality |-> None, bitrate |-> [kind |-> "absent", val |-> 0]]

VoiceFrames ==
    {PresenceFrame(Some(Alice), None, None, None, None),
     VoiceFrame("voice-join", Some(Alice), Some(Lobby)),
     VoiceFrame("voice-join", Some(Alice), Some(Stage)),
     VoiceFrame("voice-leave", Some(Alice), Some(Lobby)),
     ManageVoiceFrame("create-voice-channel", Some(Stage)),
     ManageVoiceFrame("delete-voice-channel", Some(Lobby))}

NextVoice ==
    \/ \E s \in Sessions : Connect(s, "ip1")
    \/ \E s \in Sessions : \E f \in VoiceFrames : RecvFrame(s, f, VoiceFrameCount)
    \/ \E s \in Sessions : RecvNonText(s)
    \/ \E s \in Sessions : Relay(s)
    \/ \E s \in Sessions : PresenceAuth(s)
    \/ \E s \in Sessions : PresenceRegister(s)
    \/ \E s \in Sessions : PresenceKnown(s)
    \/ \E s \in Sessions : PresenceStatus(s)
    \/ \E s \in Sessions : PresenceBroadcastStatus(s)
    \/ \E s \in Sessions : ReadOnline(s, "p_busers", "p_busers2")
    \/ \E s \in Sessions : PresenceBroadcastUsers(s)
    \/ \E s \in Sessions : PresenceSnapshot(s)
    \/ \E s \in Sessions : VoiceJoinLock(s)
    \/ \E s \in Sessions : VoiceJoinBroadcastNew(s)
    \/ \E s \in Sessions : ReadVoice(s, "vj_read", "vj_send")
    \/ \E s \in Sessions : SendVoice(s, "vj_send", "relay")
    \/ \E s \in Sessions : VoiceLeaveLock(s)
    \/ \E s \in Sessions : ReadVoice(s, "vl_read", "vl_send")
    \/ \E s \in Sessions : SendVoice(s, "vl_send", "relay")
    \/ \E s \in Sessions : CreateVoiceCheck(s)
    \/ \E s \in Sessions : CreateVoiceLock(s)
    \/ \E s \in Sessions : CreateVoiceDb(s)
    \/ \E s \in Sessions : CreateVoiceBroadcast(s)
    \/ \E s \in Sessions : DeleteVoiceCheck(s)
    \/ \E s \in Sessions : DeleteVoiceLock(s)
    \/ \E s \in Sessions : DeleteVoiceDb(s)
    \/ \E s \in Sessions : DeleteVoiceBroadcast(s)
    \/ \E s \in Sessions : DisconnectUsers(s)
    \/ \E s \in Sessions : ReadOnline(s, "d_busers", "d_busers2")
    \/ \E s \in Sessions : DisconnectBroadcastUsers(s)
    \/ \E s \in Sessions : DisconnectVoice(s)
    \/ \E s \in Sessions : ReadVoice(s, "d_bvoice", "d_bvoice2")
    \/ \E s \in Sessions : SendVoice(s, "d_bvoice2", "d_status")
    \/ \E s \in Sessions : DisconnectStatus(s)
    \/ \E s \in Sessions : DisconnectBroadcastStatus(s)

SpecVoice == InitPresence /\ [][NextVoice]_vars

(***************************************************************************)
(* Reactions on a server without password.  Every client sends presence    *)
(* first, each under its own name, and then chat and react frames.         *)
(***************************************************************************)
Thumb == << "+" >>

ReactFrame(id, action, emoji) ==
    [type |-> "react", messageId |-> id, action |-> action, emoji |-> emoji]

ReactFrames(s) ==
    IF ~IsSome(user_name[s])
    THEN {PresenceFrame(Some(IF s = 1 THEN Alice ELSE Bob), None, None, None, None)}
    ELSE {ChatFrame(user_name[s], "hi"),
          ReactFrame(Some(1), Some("add"), Some(Thumb)),
          ReactFrame(Some(1), Some("remove"), Some(Thumb))}

NextReact ==
    \/ \E s \in Sessions : Connect(s, "ip1")
    \/ \E s \in Sessions : \E f \in ReactFrames(s) : RecvFrame(s, f, ReactFrameCount)
    \/ \E s \in Sessions : PresenceAuth(s)
    \/ \E s \in Sessions : PresenceRegister(s)
    \/ \E s \in Sessions : PresenceKnown(s)
    \/ \E s \in Sessions : PresenceStatus(s)
    \/ \E s \in Sessions : PresenceBroadcastStatus(s)
    \/ \E s \in Sessions : ReadOnline(s, "p_busers", "p_busers2")
    \/ \E s \in Sessions : PresenceBroadcastUsers(s)
    \/ \E s \in Sessions : PresenceSnapshot(s)
    \/ \E s \in Sessions : ChatLimit(s)
    \/ \E s \in Sessions : ChatInsert(s)
    \/ \E s \in Sessions : ChatChannel(s)
    \/ \E s \in Sessions : ChatSend(s)
    \/ \E s \in Sessions : ReactLookup(s)
    \/ \E s \in Sessions : ReactWrite(s)
    \/ \E s \in Sessions : ReactSummary(s)
    \/ \E s \in Sessions : ReactChannel(s)
    \/ \E s \in Sessions : ReactSend(s)

SpecReact == InitPresence /\ [][NextReact]_vars

(***************************************************************************)
(* C1: with a password configured, a session becomes authenticated only in *)
(* the step that ends the pipeline of a presence frame, and the pipeline    *)
(* runs in this order: password, per-IP limiter, timestamp, nonce,          *)
(* signature.  The first step that fails sends its own error, nothing       *)
(* later in the pipeline is touched (the limiter is not charged after a     *)
(* wrong password, the nonce is not stored after a refused attempt or a     *)
(* bad timestamp), the session goes to its exit without a registered name   *)
(* and the online set is as it was.                                         *)
(***************************************************************************)
C1_AuthOrder ==
    [][IsSome(password) => \A s \in Sessions :
        LET f == frame[s]
            attempts == Get(auth_attempts, client_ip[s], << >>)
            recent == {i \in 1 .. Len(attempts) : attempts[i] >= now - RateWindowSecs}
            refused(code) ==
                /\ out'[s] = Append(out[s], code)
                /\ pc'[s] = "exit"
                /\ ~authenticated'[s]
                /\ user_name'[s] = None
                /\ UNCHANGED regVars
            pkOf == Unwrap(f.publicKey)
            sigOf == Unwrap(f.signature)
            tsOf == Unwrap(f.timestamp)
            tsValid == tsOf.numeric /\ tsOf.val - now * 1000 <= TimestampWindowMs
                                   /\ now * 1000 - tsOf.val <= TimestampWindowMs
            seen == \E n \in DOMAIN used_nonces :
                        /\ n = << pkOf, TsStr(FALSE, tsOf.val) >>
                        /\ used_nonces[n] > now - get_nonce_expiry_seconds
            verified == /\ pkOf \in GoodKeys /\ sigOf.b64 /\ sigOf.len = SignatureBytes
                        /\ sigOf.key = pkOf /\ sigOf.msg = tsOf
        IN
        /\ (~authenticated[s] /\ authenticated'[s]) => pc[s] = "p_nonce"
        /\ (pc[s] # "p_nonce" /\ pc'[s] = "p_nonce") => pc[s] = "p_auth"
        /\ (pc[s] = "p_auth" /\ pc'[s] # "p_auth" /\ ~authenticated[s]) =>
              IF f.password # password
              THEN refused("invalid-password") /\ UNCHANGED << auth_attempts, used_nonces >>
              ELSE IF IsSome(f.publicKey) /\ IsSome(f.signature) /\ IsSome(f.timestamp)
              THEN IF Cardinality(recent) >= get_max_auth_attempts_per_minute
                   THEN refused("auth-rate-limit") /\ UNCHANGED used_nonces
                   ELSE /\ pc'[s] = "p_nonce"
                        /\ Len(auth_attempts'[client_ip[s]]) = Cardinality(recent) + 1
                        /\ UNCHANGED << used_nonces, out, authenticated >>
              ELSE pc'[s] = "p_reg" /\ UNCHANGED << limVars, out, authenticated >>
        /\ (pc[s] = "p_nonce" /\ pc'[s] # "p_nonce") =>
              IF ~tsValid
              THEN refused("invalid-timestamp") /\ UNCHANGED used_nonces
              ELSE IF seen
              THEN refused("replay-attack")
              ELSE IF ~verified
              THEN \E code \in {"invalid-encoding", "invalid-key-length", "invalid-public-key",
                                "invalid-signature-format", "invalid-signature"} : refused(code)
              ELSE authenticated'[s] /\ pc'[s] = "p_reg" /\ out'[s] = out[s]
        /\ (pc[s] = "p_reg" /\ pc'[s] # "p_reg" /\ ~authenticated[s]) =>
              refused("invalid-signature")
        /\ (pc[s] = "exit" /\ pc'[s] # "exit" /\ user_name[s] = None) =>
              pc'[s] = "closed" /\ out'[s] = out[s] /\ UNCHANGED regVars
      ]_vars

\* One session came through the whole pipeline and registered; another,
\* sending the same credentials from another address, was turned away.
C1_Witness ==
    \E s, t \in Sessions :
        /\ authenticated[s] /\ IsSome(user_name[s])
        /\ ~authenticated[t] /\ pc[t] = "closed" /\ out[t] = << "replay-attack" >>

(***************************************************************************)
(* C2: a frame of any type but presence that reaches a session which is    *)
(* not authenticated is answered with the one error "unauthenticated", the *)
(* loop is left, and neither that step nor the cleanup that follows        *)
(* changes the registry, the voice rooms, the buses, the limiters or the   *)
(* database.                                                               *)
(***************************************************************************)
C2_Gate ==
    [][\A s \in Sessions :
        /\ (pc[s] = "loop" /\ ~authenticated[s] /\ frame'[s] # frame[s]
              /\ frame'[s].type # "presence") =>
              /\ out'[s] = Append(out[s], "unauthenticated")
              /\ pc'[s] = "exit"
              /\ UNCHANGED << sharedVars, authenticated, user_name >>
        /\ (pc[s] = "exit" /\ ~authenticated[s] /\ pc'[s] # "exit") =>
              /\ pc'[s] = "closed"
              /\ out'[s] = out[s]
              /\ UNCHANGED sharedVars
      ]_vars

\* A signalling frame was refused at the gate.
C2_Witness ==
    \E s \in Sessions :
        /\ ~authenticated[s] /\ pc[s] = "exit"
        /\ frame[s].type = "voice-offer" /\ out[s] = << "unauthenticated" >>

(***************************************************************************)
(* C3: on a server without password no two presence frames with the same   *)
(* publicKey, signature and timestamp are both processed successfully      *)
(* within the lifetime of a nonce: the second is refused as a replay.       *)
(***************************************************************************)
C3_ReplayRefused ==
    \A i, j \in DOMAIN accepted :
        (/\ i < j
         /\ accepted[i].publicKey = accepted[j].publicKey
         /\ accepted[i].signature = accepted[j].signature
         /\ accepted[i].timestamp = accepted[j].timestamp)
        => accepted[j].at - accepted[i].at >= get_nonce_expiry_seconds

(***************************************************************************)
(* C5: when the handler of a presence frame with a valid user name returns *)
(* Ok, the name is in the online set and in the known set and its status   *)
(* is "online"; a frame with an invalid name gets "invalid-username", ends *)
(* the session and changes nothing in the registry.                        *)
(***************************************************************************)
C5_Registered ==
    [][\A s \in Sessions :
        /\ (pc[s] = "p_snapshot" /\ pc'[s] = "loop") =>
              LET u == Unwrap(user_name[s]) IN
              /\ u \in users' /\ u \in known_users'
              /\ u \in DOMAIN statuses' /\ statuses'[u] = "online"
        /\ (pc[s] = "p_reg" /\ pc'[s] # "p_reg" /\ authenticated[s]
              /\ IsSome(frame[s].user) /\ ~validate_name(Unwrap(frame[s].user), UserNameMax)) =>
              /\ out'[s] = Append(out[s], "invalid-username")
              /\ pc'[s] = "exit"
              /\ UNCHANGED regVars
      ]_vars

(***************************************************************************)
(* C7: a name is in the online set if and only if an open session is       *)
(* registered under it.  A session that is in the middle of registering    *)
(* or of leaving is given the benefit of the doubt in both directions: a   *)
(* name in the set needs a session that holds or is taking the name and    *)
(* has not finished leaving; a session that is registered and idle in its  *)
(* loop needs its name in the set.                                         *)
(***************************************************************************)
C7_OnlineIffSession ==
    LET holds(s, u) ==
            /\ pc[s] \notin {"none", "closed"}
            /\ \/ user_name[s] = Some(u)
               \/ /\ pc[s] \in {"p_known", "p_status", "p_bstatus", "p_busers", "p_busers2"}
                  /\ frame[s].user = Some(u)
        idle(s, u) == pc[s] = "loop" /\ user_name[s] = Some(u)
    IN \A u \in {Alice, Bob} :
        /\ u \in users => \E s \in Sessions : holds(s, u)
        /\ (\E s \in Sessions : idle(s, u)) => u \in users

(***************************************************************************)
(* C4: every chat event that goes out on a channel bus carries an id that  *)
(* is positive and is at that moment the id of a row the INSERT has        *)
(* stored for that message, and no chat event sent before carries the same *)
(* id; a chat frame whose INSERT fails leaves the buses and the peer's     *)
(* stream as they were and the session in its loop.                        *)
(***************************************************************************)
C4_InsertBeforePublish ==
    [][/\ \A b \in DOMAIN chan_log :
            chan_log'[b] # chan_log[b] =>
              LET ev == chan_log'[b][Len(chan_log'[b])] IN
              /\ chan_log'[b] = Append(chan_log[b], ev)
              /\ ev.type = "chat" =>
                    /\ ev.id > 0
                    /\ ev.id \in DOMAIN messages
                    /\ messages[ev.id].text = ev.text
                    /\ messages[ev.id].channel = ev.channel
                    /\ \A c \in DOMAIN chan_log : \A i \in DOMAIN chan_log[c] :
                          chan_log[c][i].type = "chat" => chan_log[c][i].id # ev.id
       /\ \A s \in Sessions :
            (pc[s] = "c_insert" /\ pc'[s] # "c_insert" /\ messages' = messages) =>
              pc'[s] = "loop" /\ UNCHANGED << chan_log, tx, out >>
       /\ \A s \in Sessions : (pc[s] # "c_send" /\ pc'[s] = "c_send") => pc[s] = "c_chan"
       /\ \A s \in Sessions : (pc[s] # "c_chan" /\ pc'[s] = "c_chan") =>
              pc[s] = "c_insert" /\ messages' # messages
      ]_vars

\* Two chat events are out, and one chat frame was lost to a failed INSERT.
C4_Witness ==
    /\ \E b \in DOMAIN chan_log : Len(chan_log[b]) = 2
    /\ next_id = 3
    /\ nframes >= 3
    /\ \A s \in Sessions : pc[s] = "loop"

(***************************************************************************)
(* C10: a chat frame reaches the INSERT only after the message limiter     *)
(* has counted it for the session's user and found the user within the     *)
(* limit of the current window.                                            *)
(***************************************************************************)
C10_ChatCounted ==
    [][\A s \in Sessions :
        (pc[s] = "c_limit" /\ pc'[s] = "c_insert") =>
          /\ IsSome(user_name[s])
          /\ LET u == Unwrap(user_name[s])
                 before == Get(message_times, u, << >>)
                 recent == {i \in 1 .. Len(before) : before[i] >= now - RateWindowSecs}
             IN /\ Cardinality(recent) < get_max_messages_per_minute
                /\ Len(message_times'[u]) = Cardinality(recent) + 1
                /\ message_times'[u][Len(message_times'[u])] = now
      ]_vars

(***************************************************************************)
(* C6: once the loop of a session registered as u has been left, the only  *)
(* steps the session takes are those of the cleanup, in their order: u     *)
(* leaves the online set; online-users goes out on the global bus; u       *)
(* leaves the voice room that holds it and voice-users goes out for that   *)
(* room; the status of u becomes "offline"; status-update(u, offline) goes *)
(* out; the session is closed.  None of these steps changes the known      *)
(* users, the roles or the user keys.                                      *)
(***************************************************************************)
C6_Cleanup ==
    [][\A s \in Sessions :
        (IsSome(user_name[s]) /\ pc'[s] # pc[s]
           /\ pc[s] \in {"exit", "d_busers", "d_busers2", "d_voice", "d_bvoice",
                         "d_bvoice2", "d_status", "d_bstatus"}) =>
          LET u == Unwrap(user_name[s])
              rooms == {ch \in DOMAIN voice_channels : u \in voice_channels[ch].users}
              sent(type) == /\ Len(tx') = Len(tx) + 1
                            /\ SubSeq(tx', 1, Len(tx)) = tx
                            /\ tx'[Len(tx')].type = type
          IN
          /\ UNCHANGED << known_users, roles, user_keys, user_name >>
          /\ pc[s] = "exit" => pc'[s] = "d_busers" /\ u \notin users'
          /\ pc[s] = "d_busers" => pc'[s] = "d_busers2"
          /\ pc[s] = "d_busers2" => pc'[s] = "d_voice" /\ sent("online-users")
          /\ pc[s] = "d_voice" =>
                /\ \A ch \in DOMAIN voice_channels' : u \notin voice_channels'[ch].users
                /\ DOMAIN voice_channels' = DOMAIN voice_channels
                /\ IF rooms = {} THEN pc'[s] = "d_status"
                   ELSE pc'[s] = "d_bvoice" /\ local'[s] = rooms
          /\ pc[s] = "d_bvoice" => pc'[s] = "d_bvoice2"
          /\ pc[s] = "d_bvoice2" =>
                /\ pc'[s] = "d_status" /\ sent("voice-users")
                /\ \E r \in local[s] : tx'[Len(tx')].channel = r.channel
          /\ pc[s] = "d_status" =>
                /\ pc'[s] = "d_bstatus"
                /\ u \in DOMAIN statuses' /\ statuses'[u] = "offline"
          /\ pc[s] = "d_bstatus" =>
                /\ pc'[s] = "closed" /\ sent("status-update")
                /\ tx'[Len(tx')].user = u /\ tx'[Len(tx')].status = "offline"
      ]_vars

\* A registered session that sat in a voice room has gone: the last events
\* on the bus are the room's member list and the offline status.
C6_Witness ==
    \E s \in Sessions :
        /\ pc[s] = "closed" /\ user_name[s] = Some(Alice)
        /\ Alice \notin users /\ Alice \in known_users
        /\ Len(tx) >= 3
        /\ tx[Len(tx)] = [type |-> "status-update", user |-> Alice, status |-> "offline"]
        /\ tx[Len(tx) - 1].type = "voice-users" /\ tx[Len(tx) - 1].users = {}
        /\ \E i \in 1 .. Len(tx) : tx[i].type = "voice-users" /\ Alice \in tx[i].users

(***************************************************************************)
(* C8: in every state each user name is a member of at most one voice      *)
(* room.                                                                   *)
(***************************************************************************)
C8_OneRoom ==
    \A u \in {Alice, Bob} :
        Cardinality({ch \in DOMAIN voice_channels : u \in voice_channels[ch].users}) <= 1

\* The user went from one room to another: the first room is still there
\* without the user, and its member list with the user was broadcast.
C8_Witness ==
    /\ {Lobby, Stage} \subseteq DOMAIN voice_channels
    /\ Alice \in voice_channels[Stage].users
    /\ Alice \notin voice_channels[Lobby].users
    /\ \E i \in 1 .. Len(tx) :
          tx[i].type = "voice-users" /\ tx[i].channel = Lobby /\ Alice \in tx[i].users

(***************************************************************************)
(* C9: every reaction-update that goes out on a channel bus carries, for   *)
(* its message, the projection of the reactions table as the table is at   *)
(* that moment: each emoji with the sorted list, without duplicates, of    *)
(* the users that have a row for it.                                       *)
(***************************************************************************)
C9_UpdateIsProjection ==
    [][\A b \in DOMAIN chan_log :
        chan_log'[b] # chan_log[b] =>
          LET ev == chan_log'[b][Len(chan_log'[b])]
              rows == {r \in reactions' : r.message_id = ev.messageId}
              emojis == {r.emoji : r \in rows}
          IN ev.type = "reaction-update" =>
               /\ DOMAIN ev.reactions = emojis
               /\ \A e \in emojis :
                     LET list == ev.reactions[e] IN
                     /\ {list[i] : i \in 1 .. Len(list)}
                           = {r.user_name : r \in {x \in rows : x.emoji = e}}
                     /\ \A i, j \in 1 .. Len(list) : i < j => StrLess(list[i], list[j])
      ]_vars

(***************************************************************************)
(* The limiters called directly, as tests/security_limits.rs calls them:   *)
(* any caller, any key, at any reading of the clock.  now is read and the  *)
(* queue is pruned, tested and extended inside one call.                   *)
(***************************************************************************)
LimiterCalls == 5
LimiterTicks == 2
LimiterTimeSteps == {1, RateWindowSecs}
LimiterUsers == {Alice, Bob}

Call(fn, key, at, ok) == [fn |-> fn, key |-> key, at |-> at, ok |-> ok]

\* security::check_auth_rate_limit(rate_limiter, ip)
CheckAuthRateLimit(ip) ==
    /\ Len(calls) < LimiterCalls
    /\ LET r == check_rate_limit(auth_attempts, ip, now,
                                 get_max_auth_attempts_per_minute)
       IN /\ auth_attempts' = r.map
          /\ calls' = Append(calls, Call("auth", ip, now, r.ok))
    /\ UNCHANGED << cfgVars, timeVars, sessVars, regVars, voiceVars, busVars,
                    message_times, used_nonces, dbVars, nframes, accepted,
                    expiry_tasks, history_sent, global_rx, chan_rx, chan_sub >>

\* security::check_message_rate_limit(rate_limiter, user)
CheckMessageRateLimit(user) ==
    /\ Len(calls) < LimiterCalls
    /\ LET r == check_rate_limit(message_times, user, now,
                                 get_max_messages_per_minute)
       IN /\ message_times' = r.map
          /\ calls' = Append(calls, Call("message", user, now, r.ok))
    /\ UNCHANGED << cfgVars, timeVars, sessVars, regVars, voiceVars, busVars,
                    auth_attempts, used_nonces, dbVars, nframes, accepted,
                    expiry_tasks, history_sent, global_rx, chan_rx, chan_sub >>

NextLimiter ==
    \/ \E ip \in ClientIps : CheckAuthRateLimit(ip)
    \/ \E user \in LimiterUsers : CheckMessageRateLimit(user)
    \/ Tick(LimiterTimeSteps, LimiterTicks)

SpecLimiter == InitPresence /\ [][NextLimiter]_vars

(***************************************************************************)
(* C11: a limiter call is allowed exactly when fewer than the limit of     *)
(* the earlier allowed calls of the same limiter for the same key lie      *)
(* within the 60 s before it; rejected calls, calls older than 60 s and    *)
(* calls for other keys do not count.                                      *)
(***************************************************************************)
C11_LimitOf(fn) ==
    IF fn = "auth" THEN get_max_auth_attempts_per_minute
    ELSE get_max_messages_per_minute

C11_Counted(i) ==
    {j \in 1 .. (i - 1) :
        /\ calls[j].fn = calls[i].fn
        /\ calls[j].key = calls[i].key
        /\ calls[j].ok
        /\ calls[j].at >= calls[i].at - RateWindowSecs}

C11_SlidingWindow ==
    \A i \in DOMAIN calls :
        calls[i].fn \in {"auth", "message"} =>
            (calls[i].ok <=> Cardinality(C11_Counted(i)) < C11_LimitOf(calls[i].fn))

\* Alice sends two allowed messages and a third that is rejected 60 s after
\* the first; Bob's message in between is allowed; one second later Alice
\* is allowed again.
C11_Witness ==
    /\ Len(calls) = 5
    /\ \A i \in {1, 2, 3, 5} : calls[i].fn = "message" /\ calls[i].key = Alice
    /\ calls[4].fn = "message" /\ calls[4].key = Bob /\ calls[4].ok
    /\ calls[1].ok /\ calls[2].ok /\ ~calls[3].ok /\ calls[5].ok
    /\ calls[3].at = calls[1].at + RateWindowSecs
    /\ calls[5].at = calls[3].at + 1
    /\ calls[2].at > calls[1].at

(***************************************************************************)
(* The nonce store called directly, as allows_nonce_reuse_after_expiry     *)
(* of tests/security_limits.rs calls it.                                   *)
(***************************************************************************)
NonceCalls == 4
NonceTicks == 3
NonceTimeSteps == {1, get_nonce_expiry_seconds - 1}
Nonces == {"nonce-1", "nonce-2"}

\* security::check_and_store_nonce(rate_limiter, nonce)
CheckAndStoreNonce(nonce) ==
    /\ Len(calls) < NonceCalls
    /\ LET r == check_and_store_nonce(used_nonces, nonce, now)
       IN /\ used_nonces' = r.store
          /\ calls' = Append(calls, Call("nonce", nonce, now, r.ok))
    /\ UNCHANGED << cfgVars, timeVars, sessVars, regVars, voiceVars, busVars,
                    auth_attempts, message_times, dbVars, nframes, accepted,
                    expiry_tasks, history_sent, global_rx, chan_rx, chan_sub >>

NextNonce ==
    \/ \E nonce \in Nonces : CheckAndStoreNonce(nonce)
    \/ Tick(NonceTimeSteps, NonceTicks)

SpecNonce == InitPresence /\ [][NextNonce]_vars

(***************************************************************************)
(* C12: a nonce is accepted exactly when it was never accepted before or   *)
(* its last acceptance lies NONCE_EXPIRY_SECONDS or more in the past; the  *)
(* stored first-seen time of a nonce is the time of its last acceptance,   *)
(* whatever rejected calls came after it.                                  *)
(***************************************************************************)
C12_AcceptedBefore(i) ==
    {j \in 1 .. (i - 1) : calls[j].key = calls[i].key /\ calls[j].ok}

C12_LastAccepted(i) ==
    CHOOSE j \in C12_AcceptedBefore(i) : \A k \in C12_AcceptedBefore(i) : k <= j

C12_OncePerExpiry ==
    /\ \A i \in DOMAIN calls :
          calls[i].fn = "nonce" =>
            (calls[i].ok <=>
                \/ C12_AcceptedBefore(i) = {}
                \/ calls[i].at >= calls[C12_LastAccepted(i)].at
                                     + get_nonce_expiry_seconds)
    /\ \A n \in DOMAIN used_nonces :
          \E i \in DOMAIN calls :
              /\ calls[i].key = n /\ calls[i].ok /\ calls[i].at = used_nonces[n]
              /\ \A j \in DOMAIN calls : (j > i /\ calls[j].key = n) => ~calls[j].ok

\* nonce-1 is accepted, refused 299 s later, and accepted again at 300 s.
C12_Witness ==
    /\ Len(calls) = 3
    /\ \A i \in 1 .. 3 : calls[i].key = "nonce-1"
    /\ calls[1].ok /\ ~calls[2].ok /\ calls[3].ok
    /\ calls[2].at = calls[1].at + get_nonce_expiry_seconds - 1
    /\ calls[3].at = calls[1].at + get_nonce_expiry_seconds
    /\ used_nonces["nonce-1"] = calls[3].at

(***************************************************************************)
(* db::fetch_history, db::send_history, handle_load_history                *)
(***************************************************************************)
Ok(v) == [ok |-> TRUE, value |-> v]
Err == [ok |-> FALSE]

\* An i64 read from a frame, written wraps * 2^32 + low with low an i32: the
\* integers of the model are 32 bits wide.
I64(wraps, low) == [wraps |-> wraps, low |-> low]

\* i32::try_from of an i64
FitsI32(n) == n.wraps = 0

\* id < n for an i32 id and an i64 n
BelowI64(id, n) == n.wraps > 0 \/ (n.wraps = 0 /\ id < n.low)

\* WHERE channel = $1 [AND id < $2]
Selected(id, ch, before) ==
    /\ id \in DOMAIN messages
    /\ messages[id].channel = ch
    /\ IsSome(before) => id < Unwrap(before).low

\* ORDER BY id DESC over the selected rows with ids in lo .. hi
RECURSIVE OrderByIdDesc(_, _, _, _)
OrderByIdDesc(ch, before, lo, hi) ==
    IF lo > hi THEN << >>
    ELSE IF lo = hi THEN IF Selected(lo, ch, before) THEN << lo >> ELSE << >>
    ELSE LET mid == (lo + hi) \div 2 IN
         OrderByIdDesc(ch, before, mid + 1, hi) \o OrderByIdDesc(ch, before, lo, mid)

\* LIMIT n
Limit(rows, n) == SubSeq(rows, 1, IF n < Len(rows) THEN n ELSE Len(rows))

\* rows.into_iter().rev()
Rev(rows) == [i \in 1 .. Len(rows) |-> rows[Len(rows) + 1 - i]]

\* db.rs 86-118: the ids of the rows selected, newest first.  A 'before' that
\* does not fit an i32 gives no rows at all; the server rejects a negative
\* LIMIT and the query fails.
fetch_history(ch, before, limit) ==
    IF IsSome(before) /\ ~FitsI32(Unwrap(before)) THEN Ok(<< >>)
    ELSE IF limit < 0 THEN Err
    ELSE Ok(Limit(OrderByIdDesc(ch, before, 1, next_id - 1), limit))

\* db.rs 121-171: the rows go out oldest first in one history payload; nothing
\* is sent when there are none or when the query failed
send_history(s, ch, before, limit) ==
    LET fetched == fetch_history(ch, before, limit)
        msgs == IF fetched.ok THEN Rev(fetched.value) ELSE << >>
    IN IF msgs # << >>
       THEN /\ Reply(s, "history")
            /\ history_sent' = [history_sent EXCEPT ![s] = Append(@, msgs)]
       ELSE UNCHANGED << out, history_sent >>

\* handlers.rs 304-320: 'before' and 'limit' are read as integers, the limit
\* defaults to 50 and is capped from above only
handle_load_history(s) ==
    /\ pc[s] = "lh_send"
    /\ LET before == frame[s].before
           limit == IF IsSome(frame[s].limit) THEN Unwrap(frame[s].limit)
                    ELSE DEFAULT_HISTORY_LIMIT
       IN send_history(s, channel[s], before,
                       IF limit > MAX_HISTORY_LIMIT THEN MAX_HISTORY_LIMIT ELSE limit)
    /\ Next(s, "loop", NoFrame)
    /\ UNCHANGED << cfgVars, timeVars, authenticated, user_name, channel,
                    chan_tx, voice_channel, client_ip, local, sharedVars,
                    nframes, accepted, calls, expiry_tasks, global_rx, chan_rx, chan_sub >>

(***************************************************************************)
(* handle_join, handle_create_channel, handle_delete_channel               *)
(***************************************************************************)
\* handle_join without lines 296-297: the session takes the name of the
\* channel and keeps the sender and the receiver it had
JoinChannelKeepsBus(s) ==
    /\ pc[s] = "j_chan"
    /\ IF IsSome(frame[s].channel)
       THEN /\ channel' = [channel EXCEPT ![s] = Unwrap(frame[s].channel)]
            /\ Next(s, "j_hist", NoFrame)
            /\ UNCHANGED << chan_tx, chan_rx, chan_sub, channels, chan_log >>
       ELSE /\ Next(s, "loop", NoFrame)
            /\ UNCHANGED << channel, chan_tx, chan_rx, chan_sub, channels, chan_log >>
    /\ UNCHANGED << cfgVars, timeVars, authenticated, user_name, voice_channel,
                    client_ip, local, out, regVars, voiceVars, tx, limVars,
                    dbVars, nframes, accepted, calls, expiry_tasks, history_sent,
                    global_rx >>

\* Lines 295-298: the session moves to the channel named in the frame and
\* subscribes to its bus; the name is taken as it comes
JoinChannel(s) ==
    /\ pc[s] = "j_chan"
    /\ IF IsSome(frame[s].channel)
       THEN LET ch == Unwrap(frame[s].channel) IN
            /\ channel' = [channel EXCEPT ![s] = ch]
            /\ get_or_create_channel(ch)
            /\ chan_tx' = [chan_tx EXCEPT ![s] = BusOf(ch)]
            /\ chan_rx' = [chan_rx EXCEPT ![s] = Len(chan_log'[BusOf(ch)])]
            /\ chan_sub' = [chan_sub EXCEPT ![s] = Len(chan_log'[BusOf(ch)])]
            /\ Next(s, "j_hist", NoFrame)
       ELSE /\ Next(s, "loop", NoFrame)
            /\ UNCHANGED << channel, chan_tx, chan_rx, chan_sub, channels, chan_log >>
    /\ UNCHANGED << cfgVars, timeVars, authenticated, user_name, voice_channel,
                    client_ip, local, out, regVars, voiceVars, tx, limVars,
                    dbVars, nframes, accepted, calls, expiry_tasks, history_sent,
                    global_rx >>

\* Line 299: db::send_history sends the stored messages of the channel, if any
JoinHistory(s) ==
    /\ pc[s] = "j_hist"
    /\ send_history(s, channel[s], None, DEFAULT_HISTORY_LIMIT)
    /\ Goto(s, "loop")
    /\ UNCHANGED << cfgVars, timeVars, authenticated, user_name, channel,
                    chan_tx, voice_channel, client_ip, frame, local, sharedVars,
                    nframes, accepted, calls, expiry_tasks, global_rx, chan_rx, chan_sub >>

\* Lines 453-477: the checks of create-channel
CreateChannelCheck(s) ==
    /\ pc[s] = "cc_perm"
    /\ IF ~IsSome(frame[s].name)
       THEN Next(s, "loop", NoFrame) /\ UNCHANGED out
       ELSE IF ManageCheck(s) # "ok"
       THEN Reply(s, ManageCheck(s)) /\ Next(s, "loop", NoFrame)
       ELSE Goto(s, "cc_db") /\ UNCHANGED << out, frame >>
    /\ UNCHANGED << cfgVars, timeVars, authenticated, user_name, channel,
                    chan_tx, voice_channel, client_ip, local, sharedVars, nframes,
                    accepted, calls, expiry_tasks, history_sent, global_rx, chan_rx, chan_sub >>

\* Lines 479-481: db::add_channel, ON CONFLICT DO NOTHING, or an error
CreateChannelDb(s) ==
    /\ pc[s] = "cc_db"
    /\ \/ /\ db_channels' = db_channels \cup {Unwrap(frame[s].name)}
          /\ Goto(s, "cc_bus")
          /\ UNCHANGED << out, frame >>
       \/ /\ Reply(s, "channel-creation-failed")
          /\ Next(s, "loop", NoFrame)
          /\ UNCHANGED db_channels
    /\ UNCHANGED << cfgVars, timeVars, authenticated, user_name, channel,
                    chan_tx, voice_channel, client_ip, local, regVars, voiceVars,
                    busVars, limVars, messages, next_id, reactions, db_roles,
                    db_voice, nframes, accepted, calls, expiry_tasks, history_sent, global_rx, chan_rx, chan_sub >>

\* Line 483
CreateChannelBus(s) ==
    /\ pc[s] = "cc_bus"
    /\ get_or_create_channel(Unwrap(frame[s].name))
    /\ Goto(s, "cc_badd")
    /\ UNCHANGED << cfgVars, timeVars, authenticated, user_name, channel,
                    chan_tx, voice_channel, client_ip, frame, local, out, regVars,
                    voiceVars, tx, limVars, dbVars, nframes, accepted, calls,
                    expiry_tasks, history_sent, global_rx, chan_rx, chan_sub >>

\* Line 484: helpers::broadcast_new_channel
CreateChannelBroadcast(s) ==
    /\ pc[s] = "cc_badd"
    /\ Publish([type |-> "channel-add", channel |-> Unwrap(frame[s].name)])
    /\ Next(s, "loop", NoFrame)
    /\ UNCHANGED << cfgVars, timeVars, authenticated, user_name, channel,
                    chan_tx, voice_channel, client_ip, local, out, regVars,
                    voiceVars, channels, chan_log, limVars, dbVars, nframes,
                    accepted, calls, expiry_tasks, history_sent, global_rx, chan_rx, chan_sub >>

\* Lines 498-528: the checks of delete-channel; 'general' is refused before
\* the requester is looked at
DeleteChannelCheckSkipsGeneral(s) == ManageCheck(s)
DeleteChannelCheck(s) ==
    IF ~validate_channel_name(Unwrap(frame[s].name)) THEN "invalid-channel-name"
    ELSE IF Unwrap(frame[s].name) = General THEN "cannot-delete-general"
    ELSE ManageCheck(s)

DeleteChannelPerm(s) ==
    /\ pc[s] = "dc_perm"
    /\ IF ~IsSome(frame[s].name)
       THEN Next(s, "loop", NoFrame) /\ UNCHANGED out
       ELSE IF DeleteChannelCheck(s) # "ok"
       THEN Reply(s, DeleteChannelCheck(s)) /\ Next(s, "loop", NoFrame)
       ELSE Goto(s, "dc_db") /\ UNCHANGED << out, frame >>
    /\ UNCHANGED << cfgVars, timeVars, authenticated, user_name, channel,
                    chan_tx, voice_channel, client_ip, local, sharedVars, nframes,
                    accepted, calls, expiry_tasks, history_sent, global_rx, chan_rx, chan_sub >>

\* Lines 530-532: db::remove_channel, or an error
DeleteChannelDb(s) ==
    /\ pc[s] = "dc_db"
    /\ \/ /\ db_channels' = db_channels \ {Unwrap(frame[s].name)}
          /\ Goto(s, "dc_map")
          /\ UNCHANGED << out, frame >>
       \/ /\ Reply(s, "channel-deletion-failed")
          /\ Next(s, "loop", NoFrame)
          /\ UNCHANGED db_channels
    /\ UNCHANGED << cfgVars, timeVars, authenticated, user_name, channel,
                    chan_tx, voice_channel, client_ip, local, regVars, voiceVars,
                    busVars, limVars, messages, next_id, reactions, db_roles,
                    db_voice, nframes, accepted, calls, expiry_tasks, history_sent, global_rx, chan_rx, chan_sub >>

\* Line 534: the bus handle leaves the map; the senders and receivers the
\* sessions hold stay as they are
DeleteChannelMap(s) ==
    /\ pc[s] = "dc_map"
    /\ channels' = Del(channels, Unwrap(frame[s].name))
    /\ Goto(s, "dc_brm")
    /\ UNCHANGED << cfgVars, timeVars, authenticated, user_name, channel,
                    chan_tx, voice_channel, client_ip, frame, local, out, regVars,
                    voiceVars, tx, chan_log, limVars, dbVars, nframes, accepted,
                    calls, expiry_tasks, history_sent, global_rx, chan_rx, chan_sub >>

\* Lines 535-536: helpers::broadcast_remove_channel
DeleteChannelBroadcast(s) ==
    /\ pc[s] = "dc_brm"
    /\ Publish([type |-> "channel-remove", channel |-> Unwrap(frame[s].name)])
    /\ IF channel[s] = Unwrap(frame[s].name)
       THEN Goto(s, "dc_move") /\ UNCHANGED frame
       ELSE Next(s, "loop", NoFrame)
    /\ UNCHANGED << cfgVars, timeVars, authenticated, user_name, channel,
                    chan_tx, voice_channel, client_ip, local, out, regVars,
                    voiceVars, channels, chan_log, limVars, dbVars, nframes,
                    accepted, calls, expiry_tasks, history_sent, global_rx, chan_rx, chan_sub >>

\* Lines 537-539: the deleting session moves itself to 'general'
DeleteChannelMove(s) ==
    /\ pc[s] = "dc_move"
    /\ channel' = [channel EXCEPT ![s] = General]
    /\ get_or_create_channel(General)
    /\ chan_tx' = [chan_tx EXCEPT ![s] = BusOf(General)]
    /\ chan_rx' = [chan_rx EXCEPT ![s] = Len(chan_log'[BusOf(General)])]
    /\ chan_sub' = [chan_sub EXCEPT ![s] = Len(chan_log'[BusOf(General)])]
    /\ Next(s, "loop", NoFrame)
    /\ UNCHANGED << cfgVars, timeVars, authenticated, user_name, voice_channel,
                    client_ip, local, out, regVars, voiceVars, tx, limVars,
                    dbVars, nframes, accepted, calls, expiry_tasks, history_sent,
                    global_rx >>

(***************************************************************************)
(* handle_update_voice_channel                                             *)
(***************************************************************************)
\* Lines 623-673: the checks of update-voice-channel and the overrides the
\* frame carries
UpdateVoiceCheck(s) ==
    /\ pc[s] = "uv_perm"
    /\ LET f == frame[s]
           b == f.bitrate
           rate == IF b.kind = "int" THEN validate_bitrate(b.val) ELSE None
       IN
       IF ~IsSome(f.name)
       THEN Next(s, "loop", NoFrame) /\ UNCHANGED << out, local >>
       ELSE IF ManageCheck(s) # "ok"
       THEN Reply(s, ManageCheck(s)) /\ Next(s, "loop", NoFrame) /\ UNCHANGED local
       ELSE IF IsSome(f.quality) /\ ~validate_voice_quality(Trim(Unwrap(f.quality)))
       THEN Reply(s, "invalid-voice-quality") /\ Next(s, "loop", NoFrame) /\ UNCHANGED local
       ELSE IF b.kind \in {"int", "other"} /\ ~IsSome(rate)
       THEN Reply(s, "invalid-voice-bitrate") /\ Next(s, "loop", NoFrame) /\ UNCHANGED local
       ELSE /\ local' = [local EXCEPT ![s] =
                   {[quality |-> IF IsSome(f.quality) THEN Some(Trim(Unwrap(f.quality)))
                                 ELSE None,
                     bitrate |-> CASE b.kind = "absent" -> None
                                   [] b.kind = "null" -> Some(None)
                                   [] OTHER -> Some(rate)]}]
            /\ Goto(s, "uv_read")
            /\ UNCHANGED << out, frame >>
    /\ UNCHANGED << cfgVars, timeVars, authenticated, user_name, channel,
                    chan_tx, voice_channel, client_ip, sharedVars, nframes,
                    accepted, calls, expiry_tasks, history_sent, global_rx, chan_rx, chan_sub >>

\* Lines 675-686: the room is read under the lock and the new settings are
\* worked out from it; when the room is not found the guard stays alive
UpdateVoiceRead(s) ==
    /\ pc[s] = "uv_read"
    /\ Free("voice_channels", s)
    /\ LET ch == Unwrap(frame[s].name) IN
       IF ch \notin DOMAIN voice_channels
       THEN /\ Goto(s, "uv_unknown")
            /\ local' = [local EXCEPT ![s] = {}]
            /\ UNCHANGED << out, frame >>
       ELSE /\ local' = [local EXCEPT ![s] =
                   {[quality |-> IF IsSome(o.quality) THEN Unwrap(o.quality)
                                 ELSE voice_channels[ch].quality,
                     bitrate |-> IF IsSome(o.bitrate) THEN Unwrap(o.bitrate)
                                 ELSE voice_channels[ch].bitrate] : o \in local[s]}]
            /\ Goto(s, "uv_db")
            /\ UNCHANGED << out, frame >>
    /\ UNCHANGED << cfgVars, timeVars, authenticated, user_name, channel,
                    chan_tx, voice_channel, client_ip, sharedVars, nframes,
                    accepted, calls, expiry_tasks, history_sent, global_rx, chan_rx, chan_sub >>

\* Lines 676-679: the else branch of the let-else sends the error and
\* returns; `current` is dropped at the return
UpdateVoiceUnknown(s) ==
    /\ pc[s] = "uv_unknown"
    /\ Reply(s, "unknown-voice-channel")
    /\ Next(s, "loop", NoFrame)
    /\ UNCHANGED << cfgVars, timeVars, authenticated, user_name, channel,
                    chan_tx, voice_channel, client_ip, local, sharedVars, nframes,
                    accepted, calls, expiry_tasks, history_sent, global_rx, chan_rx, chan_sub >>

\* Lines 688 and 699-705: db::update_voice_channel updates the row, finds
\* none, or fails
UpdateVoiceDb(s) ==
    /\ pc[s] = "uv_db"
    /\ LET ch == Unwrap(frame[s].name) IN
       \/ /\ ch \in DOMAIN db_voice
          /\ \E n \in local[s] : db_voice' = Put(db_voice, ch, n)
          /\ Goto(s, "uv_lock")
          /\ UNCHANGED << out, frame, local >>
       \/ /\ ch \notin DOMAIN db_voice
          /\ Reply(s, "unknown-voice-channel")
          /\ Next(s, "loop", NoFrame)
          /\ local' = [local EXCEPT ![s] = {}]
          /\ UNCHANGED db_voice
       \/ /\ Reply(s, "voice-channel-update-failed")
          /\ Next(s, "loop", NoFrame)
          /\ local' = [local EXCEPT ![s] = {}]
          /\ UNCHANGED db_voice
    /\ UNCHANGED << cfgVars, timeVars, authenticated, user_name, channel,
                    chan_tx, voice_channel, client_ip, regVars, voiceVars,
                    busVars, limVars, messages, next_id, reactions, db_channels,
                    db_roles, nframes, accepted, calls, expiry_tasks, history_sent, global_rx, chan_rx, chan_sub >>

\* Lines 690-695: the room in the map takes the new settings, if it is
\* still there
UpdateVoiceLock(s) ==
    /\ pc[s] = "uv_lock"
    /\ Free("voice_channels", s)
    /\ LET ch == Unwrap(frame[s].name) IN
       IF ch \in DOMAIN voice_channels
       THEN /\ \E n \in local[s] :
                 voice_channels' = [voice_channels EXCEPT ![ch].quality = n.quality,
                                                          ![ch].bitrate = n.bitrate]
            /\ Goto(s, "uv_bupd")
            /\ UNCHANGED << frame, local >>
       ELSE /\ Next(s, "loop", NoFrame)
            /\ local' = [local EXCEPT ![s] = {}]
            /\ UNCHANGED voice_channels
    /\ UNCHANGED << cfgVars, timeVars, authenticated, user_name, channel,
                    chan_tx, voice_channel, client_ip, out, regVars, busVars,
                    limVars, dbVars, nframes, accepted, calls, expiry_tasks, history_sent, global_rx, chan_rx, chan_sub >>

\* Line 696: helpers::broadcast_voice_channel_update with the snapshot
UpdateVoiceBroadcast(s) ==
    /\ pc[s] = "uv_bupd"
    /\ \E n \in local[s] :
          Publish([type |-> "voice-channel-update", channel |-> Unwrap(frame[s].name),
                   quality |-> n.quality, bitrate |-> n.bitrate])
    /\ local' = [local EXCEPT ![s] = {}]
    /\ Next(s, "loop", NoFrame)
    /\ UNCHANGED << cfgVars, timeVars, authenticated, user_name, channel,
                    chan_tx, voice_channel, client_ip, out, regVars, voiceVars,
                    channels, chan_log, limVars, dbVars, nframes, accepted, calls,
                    expiry_tasks, history_sent, global_rx, chan_rx, chan_sub >>

(***************************************************************************)
(* Channel management on a server without password, with and without an    *)
(* admin token.  The roles table holds a manage role, written in lower     *)
(* case, for the first client's key and an ordinary role for the second's. *)
(* Every client sends presence first, under its own name and key.          *)
(***************************************************************************)
ManageFrameCount == 4
Dev == << "1", "a" >>

RoleTable ==
    Put(Put(EmptyMap, "k1", [role |-> "admin", color |-> None]),
        "k2", [role |-> "User", color |-> None])

InitManage == InitState({None}, {None, Some("tok")}, {RoleTable}, {EmptyMap})

ChannelFrame(type, name) == [type |-> type, name |-> name]

ManageFrames(s) ==
    IF ~IsSome(user_name[s])
    THEN {PresenceFrame(Some(IF s = 1 THEN Alice ELSE Bob), None,
                        Some(IF s = 1 THEN "k1" ELSE "k2"), None, None)}
    ELSE {ChannelFrame("create-channel", Some(Dev)),
          ChannelFrame("delete-channel", Some(Dev)),
          ChannelFrame("delete-channel", Some(General)),
          ManageVoiceFrame("create-voice-channel", Some(Stage)),
          [ManageVoiceFrame("update-voice-channel", Some(Stage))
              EXCEPT !.quality = Some(<< "b" >>)],
          ManageVoiceFrame("delete-voice-channel", Some(Stage))}

NextManage ==
    \/ \E s \in Sessions : Connect(s, "ip1")
    \/ \E s \in Sessions : \E f \in ManageFrames(s) : RecvFrame(s, f, ManageFrameCount)
    \/ \E s \in Sessions : PresenceAuth(s)
    \/ \E s \in Sessions : PresenceRegister(s)
    \/ \E s \in Sessions : PresenceKnown(s)
    \/ \E s \in Sessions : PresenceStatus(s)
    \/ \E s \in Sessions : PresenceBroadcastStatus(s)
    \/ \E s \in Sessions : ReadOnline(s, "p_busers", "p_busers2")
    \/ \E s \in Sessions : PresenceBroadcastUsers(s)
    \/ \E s \in Sessions : PresenceKeys(s)
    \/ \E s \in Sessions : PresenceRole(s)
    \/ \E s \in Sessions : PresenceRoles(s)
    \/ \E s \in Sessions : PresenceBroadcastRole(s)
    \/ \E s \in Sessions : PresenceSnapshot(s)
    \/ \E s \in Sessions : CreateChannelCheck(s)
    \/ \E s \in Sessions : CreateChannelDb(s)
    \/ \E s \in Sessions : CreateChannelBus(s)
    \/ \E s \in Sessions : CreateChannelBroadcast(s)
    \/ \E s \in Sessions : DeleteChannelPerm(s)
    \/ \E s \in Sessions : DeleteChannelDb(s)
    \/ \E s \in Sessions : DeleteChannelMap(s)
    \/ \E s \in Sessions : DeleteChannelBroadcast(s)
    \/ \E s \in Sessions : CreateVoiceCheck(s)
    \/ \E s \in Sessions : CreateVoiceLock(s)
    \/ \E s \in Sessions : CreateVoiceDb(s)
    \/ \E s \in Sessions : CreateVoiceBroadcast(s)
    \/ \E s \in Sessions : UpdateVoiceCheck(s)
    \/ \E s \in Sessions : UpdateVoiceRead(s)
    \/ \E s \in Sessions : UpdateVoiceUnknown(s)
    \/ \E s \in Sessions : UpdateVoiceDb(s)
    \/ \E s \in Sessions : UpdateVoiceLock(s)
    \/ \E s \in Sessions : UpdateVoiceBroadcast(s)
    \/ \E s \in Sessions : DeleteVoiceCheck(s)
    \/ \E s \in Sessions : DeleteVoiceLock(s)
    \/ \E s \in Sessions : DeleteVoiceDb(s)
    \/ \E s \in Sessions : DeleteVoiceBroadcast(s)

SpecManage == InitManage /\ [][NextManage]_vars

(***************************************************************************)
(* C13: a create-channel, delete-channel, create-voice-channel,            *)
(* update-voice-channel or delete-voice-channel frame gets past its checks *)
(* only if the session is registered and either no admin token is          *)
(* configured or the role-map entry of its user is Admin, Mod or Owner in  *)
(* any letter case; a requester without permission is answered             *)
(* 'channel-permission-denied' and the shared state stays as it is; the    *)
(* database tables of the channels, the voice-room map and the bus map     *)
(* change only in the steps of a handler that got past its checks.  (A     *)
(* delete-channel frame naming 'general' is turned away before the         *)
(* requester is looked at.)                                                *)
(***************************************************************************)
C13_CheckStages == {"cc_perm", "dc_perm", "cv_perm", "uv_perm", "dv_perm"}
C13_WorkStages ==
    {"cc_db", "cc_bus", "dc_db", "dc_map", "dc_move", "cv_lock", "cv_db",
     "uv_db", "uv_lock", "dv_lock", "dv_db"}
C13_ManageRoles ==
    {"Admin", "admin", "ADMIN", "Mod", "mod", "MOD", "Owner", "owner", "OWNER"}

C13_Permitted(s) ==
    /\ IsSome(user_name[s])
    /\ \/ admin_token = None
       \/ /\ Unwrap(user_name[s]) \in DOMAIN roles
          /\ roles[Unwrap(user_name[s])].role \in C13_ManageRoles

C14_GeneralStays ==
    [][/\ General \in db_channels
       /\ General \in db_channels'
       /\ \A s \in Sessions :
            (/\ pc[s] = "dc_perm" /\ pc'[s] # pc[s]
             /\ frame[s].name = Some(General)) =>
                /\ pc'[s] = "loop"
                /\ out'[s] = Append(out[s], "cannot-delete-general")
                /\ sharedVars' = sharedVars
                /\ channel'[s] = channel[s]
      ]_vars

\* With an admin token configured, Alice (a manager) and Bob (not one) have
\* both asked to delete 'general' and both were refused.
C14_Witness ==
    /\ IsSome(admin_token)
    /\ Alice \in DOMAIN roles /\ roles[Alice].role = "admin"
    /\ out[1] = << "initial-state", "cannot-delete-general" >>
    /\ out[2] = << "initial-state", "cannot-delete-general" >>
    /\ General \in db_channels
    /\ \A s \in Sessions : pc[s] = "loop"

(***************************************************************************)
(* handle_delete_message                                                   *)
(***************************************************************************)
\* db::get_message_record: the channel and the content of the row with the
\* id, if there is one
get_message_record(id) ==
    IF id \in DOMAIN messages
    THEN Some([channel |-> messages[id].channel, content |-> messages[id]])
    ELSE None

\* db::delete_message: the DELETE of the row with the id; the reactions of
\* the message go with it (ON DELETE CASCADE of the reactions table)
delete_message(id) ==
    /\ messages' = Del(messages, id)
    /\ reactions' = {r \in reactions : r.message_id # id}

\* Lines 859-934: the requester and the id of the frame, the row read from
\* the database, its channel compared with the session's, and its "user"
\* field with the requester
DeleteMessageLookup(s) ==
    /\ pc[s] = "dm_lookup"
    /\ LET f == frame[s]
           refuse(code) == Reply(s, code) /\ Next(s, "loop", NoFrame) /\ UNCHANGED local
       IN
       IF ~IsSome(user_name[s]) THEN refuse("not-authenticated")
       ELSE IF ~IsSome(f.messageId) THEN refuse("invalid-message-id")
       ELSE IF Unwrap(f.messageId) > I32Max \/ Unwrap(f.messageId) < -I32Max - 1
       THEN refuse("invalid-message-id")
       ELSE \/ refuse("message-delete-failed")
            \/ LET record == get_message_record(Unwrap(f.messageId)) IN
               IF ~IsSome(record) THEN refuse("message-not-found")
               ELSE IF Unwrap(record).channel # channel[s]
               THEN refuse("message-wrong-channel")
               ELSE /\ local' = [local EXCEPT ![s] =
                         {[id |-> Unwrap(f.messageId), channel |-> Unwrap(record).channel,
                           bus |-> 0]}]
                    /\ Goto(s, IF Unwrap(record).content.user = user_name[s]
                               THEN "dm_delete" ELSE "dm_perm")
                    /\ UNCHANGED << out, frame >>
    /\ UNCHANGED << cfgVars, timeVars, authenticated, user_name, channel,
                    chan_tx, voice_channel, client_ip, sharedVars, nframes, accepted,
                    calls, expiry_tasks, history_sent, global_rx, chan_rx, chan_sub >>

\* Lines 935-947: a requester who is not the owner needs the manage permission
DeleteMessagePermOff(s) ==
    /\ pc[s] = "dm_perm"
    /\ Goto(s, "dm_delete")
    /\ UNCHANGED << cfgVars, timeVars, authenticated, user_name, channel,
                    chan_tx, voice_channel, client_ip, frame, local, out, sharedVars,
                    nframes, accepted, calls, expiry_tasks, history_sent, global_rx, chan_rx, chan_sub >>
DeleteMessagePerm(s) ==
    /\ pc[s] = "dm_perm"
    /\ IF can_manage_channels(Unwrap(user_name[s]))
       THEN Goto(s, "dm_delete") /\ UNCHANGED << out, frame, local >>
       ELSE /\ Reply(s, "message-permission-denied")
            /\ Next(s, "loop", NoFrame)
            /\ local' = [local EXCEPT ![s] = {}]
    /\ UNCHANGED << cfgVars, timeVars, authenticated, user_name, channel,
                    chan_tx, voice_channel, client_ip, sharedVars, nframes, accepted,
                    calls, expiry_tasks, history_sent, global_rx, chan_rx, chan_sub >>

\* Lines 949-976: the DELETE removed the row, found none, or failed
DeleteMessageDb(s) ==
    /\ pc[s] = "dm_delete"
    /\ \E r \in local[s] :
          \/ /\ r.id \in DOMAIN messages
             /\ delete_message(r.id)
             /\ Goto(s, "dm_chan")
             /\ UNCHANGED << out, frame, local >>
          \/ /\ r.id \notin DOMAIN messages
             /\ Reply(s, "message-not-found")
             /\ Next(s, "loop", NoFrame)
             /\ local' = [local EXCEPT ![s] = {}]
             /\ UNCHANGED << messages, reactions >>
          \/ /\ Reply(s, "message-delete-failed")
             /\ Next(s, "loop", NoFrame)
             /\ local' = [local EXCEPT ![s] = {}]
             /\ UNCHANGED << messages, reactions >>
    /\ UNCHANGED << cfgVars, timeVars, authenticated, user_name, channel,
                    chan_tx, voice_channel, client_ip, regVars, voiceVars,
                    busVars, limVars, next_id, db_channels, db_roles, db_voice,
                    nframes, accepted, calls, expiry_tasks, history_sent, global_rx, chan_rx, chan_sub >>

\* Line 956: the bus of the record's channel is looked up (or made)
DeleteMessageChannel(s) ==
    /\ pc[s] = "dm_chan"
    /\ \E r \in local[s] :
          /\ get_or_create_channel(r.channel)
          /\ local' = [local EXCEPT ![s] = {[r EXCEPT !.bus = BusOf(r.channel)]}]
    /\ Goto(s, "dm_send")
    /\ UNCHANGED << cfgVars, timeVars, authenticated, user_name, channel,
                    chan_tx, voice_channel, client_ip, frame, out, regVars, voiceVars,
                    tx, limVars, dbVars, nframes, accepted, calls, expiry_tasks, history_sent, global_rx, chan_rx, chan_sub >>

MessageDeleted(id, ch) == [type |-> "message-deleted", id |-> id, channel |-> ch]

\* Line 957: message-deleted goes out on that bus
DeleteMessageSend(s) ==
    /\ pc[s] = "dm_send"
    /\ \E r \in local[s] : PublishOn(r.bus, MessageDeleted(r.id, r.channel))
    /\ local' = [local EXCEPT ![s] = {}]
    /\ Next(s, "loop", NoFrame)
    /\ UNCHANGED << cfgVars, timeVars, authenticated, user_name, channel,
                    chan_tx, voice_channel, client_ip, out, regVars, voiceVars,
                    channels, tx, limVars, dbVars, nframes, accepted, calls, expiry_tasks, history_sent, global_rx, chan_rx, chan_sub >>

(***************************************************************************)
(* Deleting messages on a server without password, with and without admin  *)
(* token, with the roles table of the management runs.  Every client sends *)
(* presence first, under its own name and key, and then chats under its    *)
(* name, reacts to message 1, joins another channel and asks to delete     *)
(* message 1.                                                              *)
(***************************************************************************)
DeleteFrameCount == 5

JoinFrame(ch) == [type |-> "join", channel |-> ch]
DeleteMessageFrame(id) == [type |-> "delete-message", messageId |-> id]

DeleteFrames(s) ==
    IF ~IsSome(user_name[s])
    THEN {PresenceFrame(Some(IF s = 1 THEN Alice ELSE Bob), None,
                        Some(IF s = 1 THEN "k1" ELSE "k2"), None, None)}
    ELSE {ChatFrame(user_name[s], "hi"),
          ReactFrame(Some(1), Some("add"), Some(Thumb)),
          JoinFrame(Some(Dev)),
          DeleteMessageFrame(Some(1))}

NextDelete ==
    \/ \E s \in Sessions : Connect(s, "ip1")
    \/ \E s \in Sessions : \E f \in DeleteFrames(s) : RecvFrame(s, f, DeleteFrameCount)
    \/ \E s \in Sessions : PresenceAuth(s)
    \/ \E s \in Sessions : PresenceRegister(s)
    \/ \E s \in Sessions : PresenceKnown(s)
    \/ \E s \in Sessions : PresenceStatus(s)
    \/ \E s \in Sessions : PresenceBroadcastStatus(s)
    \/ \E s \in Sessions : ReadOnline(s, "p_busers", "p_busers2")
    \/ \E s \in Sessions : PresenceBroadcastUsers(s)
    \/ \E s \in Sessions : PresenceKeys(s)
    \/ \E s \in Sessions : PresenceRole(s)
    \/ \E s \in Sessions : PresenceRoles(s)
    \/ \E s \in Sessions : PresenceBroadcastRole(s)
    \/ \E s \in Sessions : PresenceSnapshot(s)
    \/ \E s \in Sessions : ChatLimit(s)
    \/ \E s \in Sessions : ChatInsert(s)
    \/ \E s \in Sessions : ChatChannel(s)
    \/ \E s \in Sessions : ChatSend(s)
    \/ \E s \in Sessions : ReactLookup(s)
    \/ \E s \in Sessions : ReactWrite(s)
    \/ \E s \in Sessions : ReactSummary(s)
    \/ \E s \in Sessions : ReactChannel(s)
    \/ \E s \in Sessions : ReactSend(s)
    \/ \E s \in Sessions : JoinChannel(s)
    \/ \E s \in Sessions : JoinHistory(s)
    \/ \E s \in Sessions : DeleteMessageLookup(s)
    \/ \E s \in Sessions : DeleteMessagePerm(s)
    \/ \E s \in Sessions : DeleteMessageDb(s)
    \/ \E s \in Sessions : DeleteMessageChannel(s)
    \/ \E s \in Sessions : DeleteMessageSend(s)

SpecDelete == InitManage /\ [][NextDelete]_vars

(***************************************************************************)
(* C15: a delete-message frame of a registered session removes the message *)
(* and publishes message-deleted on the bus of the message's channel only  *)
(* if the message exists, its channel is the session's current channel and *)
(* the requester is named in the message's "user" field or has the manage  *)
(* permission; otherwise the reply is message-not-found,                   *)
(* message-wrong-channel or message-permission-denied respectively, and    *)
(* the messages, the reactions and the buses stay as they are.  A failed   *)
(* database call is answered message-delete-failed and changes nothing.    *)
(***************************************************************************)
C15_Requester(s) ==
    /\ IsSome(user_name[s])
    /\ IsSome(frame[s].messageId)
    /\ Unwrap(frame[s].messageId) <= I32Max
    /\ Unwrap(frame[s].messageId) >= -I32Max - 1

C15_Refusal(s) ==
    LET id == Unwrap(frame[s].messageId) IN
    IF id \notin DOMAIN messages THEN "message-not-found"
    ELSE IF messages[id].channel # channel[s] THEN "message-wrong-channel"
    ELSE "message-permission-denied"

ChannelFrameCount == 6

\* The text channel was created and then deleted: its row and its bus handle
\* are gone, channel-remove went out after channel-add, and no delete-channel
\* handler is still running
ChannelDeleted(ch) ==
    /\ ch \notin db_channels
    /\ ch \notin DOMAIN channels
    /\ \E i, j \in 1 .. Len(tx) :
          /\ i < j
          /\ tx[i] = [type |-> "channel-add", channel |-> ch]
          /\ tx[j] = [type |-> "channel-remove", channel |-> ch]
    /\ \A s \in Sessions : pc[s] \notin {"dc_perm", "dc_db", "dc_map", "dc_brm", "dc_move"}

ChannelFrames(s) ==
    IF s = 1
    THEN IF ~IsSome(user_name[s])
         THEN {PresenceFrame(Some(Alice), None, None, None, None)}
         ELSE {ChannelFrame("create-channel", Some(Dev)),
               ChannelFrame("delete-channel", Some(Dev)),
               JoinFrame(Some(Dev))}
    ELSE {JoinFrame(Some(Dev)), ChatFrame(Some(Bob), "hi")}
         \cup (IF ChannelDeleted(channel[s]) THEN {PingFrame} ELSE {})

NextChannel ==
    \/ \E s \in Sessions : Connect(s, "ip1")
    \/ \E s \in Sessions : \E f \in ChannelFrames(s) : RecvFrame(s, f, ChannelFrameCount)
    \/ \E s \in Sessions : PresenceAuth(s)
    \/ \E s \in Sessions : PresenceRegister(s)
    \/ \E s \in Sessions : PresenceKnown(s)
    \/ \E s \in Sessions : PresenceStatus(s)
    \/ \E s \in Sessions : PresenceBroadcastStatus(s)
    \/ \E s \in Sessions : ReadOnline(s, "p_busers", "p_busers2")
    \/ \E s \in Sessions : PresenceBroadcastUsers(s)
    \/ \E s \in Sessions : PresenceSnapshot(s)
    \/ \E s \in Sessions : Ping(s)
    \/ \E s \in Sessions : JoinChannel(s)
    \/ \E s \in Sessions : JoinHistory(s)
    \/ \E s \in Sessions : CreateChannelCheck(s)
    \/ \E s \in Sessions : CreateChannelDb(s)
    \/ \E s \in Sessions : CreateChannelBus(s)
    \/ \E s \in Sessions : CreateChannelBroadcast(s)
    \/ \E s \in Sessions : DeleteChannelPerm(s)
    \/ \E s \in Sessions : DeleteChannelDb(s)
    \/ \E s \in Sessions : DeleteChannelMap(s)
    \/ \E s \in Sessions : DeleteChannelBroadcast(s)
    \/ \E s \in Sessions : DeleteChannelMove(s)
    \/ \E s \in Sessions : ChatLimit(s)
    \/ \E s \in Sessions : ChatInsert(s)
    \/ \E s \in Sessions : ChatChannel(s)
    \/ \E s \in Sessions : ChatSend(s)

SpecChannel == InitPresence /\ [][NextChannel]_vars

(***************************************************************************)
(* C16: after a successful delete-channel of text channel C, every session *)
(* whose current channel was C, the deleting one and every other one, has  *)
(* current channel 'general' and holds the bus of 'general' no later than  *)
(* after the next event it handles.  In these runs the second client sends *)
(* a ping only after the channel it is on was deleted, so a session that   *)
(* has answered a ping has handled an event since then.                    *)
(***************************************************************************)
C16_MigratesToGeneral ==
    \A s \in Sessions :
        (pc[s] = "loop" /\ \E i \in 1 .. Len(out[s]) : out[s][i] = "pong") =>
            /\ channel[s] = General
            /\ General \in DOMAIN channels /\ chan_tx[s] = channels[General]

(***************************************************************************)
(* C17: every row a chat frame inserts into messages carries the name of a *)
(* text channel that has a row in the channels table at the time of the    *)
(* INSERT, whatever join, create-channel and delete-channel frames came    *)
(* before from any session.                                                *)
(***************************************************************************)
C17_InsertIntoExistingChannel ==
    [][\A id \in DOMAIN messages' \ DOMAIN messages :
          messages'[id].channel \in db_channels
      ]_vars

(***************************************************************************)
(* C18: when a user who is a member of voice room A sends voice-join for   *)
(* room B, the server publishes on the global bus a voice-users event for  *)
(* A with the user removed and a voice-users event for B containing the    *)
(* user.  Checked where nothing runs concurrently: once the only connected *)
(* session is back in its loop, the last voice-users event of every room   *)
(* lists no user who is no longer a member of the room, and after a        *)
(* voice-join the last voice-users event of the joined room lists the      *)
(* user.                                                                   *)
(***************************************************************************)
C18_VoiceUsersOf(ch) == {i \in 1 .. Len(tx) : tx[i].type = "voice-users" /\ tx[i].channel = ch}

C18_LastVoiceUsers(ch) ==
    tx[CHOOSE i \in C18_VoiceUsersOf(ch) : \A j \in C18_VoiceUsersOf(ch) : j <= i].users

C18_BothRoomsAnnounced ==
    (\E s \in Sessions :
        /\ pc[s] = "loop"
        /\ \A t \in Sessions \ {s} : pc[t] = "none") =>
    \A ch \in DOMAIN voice_channels :
        /\ C18_VoiceUsersOf(ch) # {} => C18_LastVoiceUsers(ch) \subseteq voice_channels[ch].users
        /\ voice_channels[ch].users # {} =>
              /\ C18_VoiceUsersOf(ch) # {}
              /\ voice_channels[ch].users \subseteq C18_LastVoiceUsers(ch)

(***************************************************************************)
(* C19: the voice-users event a voice-join(user, channel) handler          *)
(* publishes lists that user as a member of the channel, whatever          *)
(* voice-join, voice-leave, delete-voice-channel and disconnect handlers   *)
(* of other sessions run in between.                                       *)
(***************************************************************************)
C19_OwnJoinListed ==
    [][\A s \in Sessions :
          (/\ pc[s] = "vj_send" /\ pc'[s] # pc[s]
           /\ IsSome(frame[s].user) /\ IsSome(frame[s].channel)) =>
              /\ Len(tx') = Len(tx) + 1
              /\ tx'[Len(tx')].type = "voice-users"
              /\ tx'[Len(tx')].channel = Unwrap(frame[s].channel)
              /\ Unwrap(frame[s].user) \in tx'[Len(tx')].users
      ]_vars

(***************************************************************************)
(* handle_chat: the deletion task of an ephemeral message                  *)
(***************************************************************************)
Become(t, u) == expiry_tasks' = (expiry_tasks \ {t}) \cup {u}
Finish(t) == expiry_tasks' = expiry_tasks \ {t}

\* Lines 817-823: the delay until the expiry, between zero and the maximum
ExpiryStart(t) ==
    /\ t.pc = "start"
    /\ LET delay == t.expiry - now
           lower == IF delay < 0 THEN 0 ELSE delay
           upper == IF lower > MAX_EPHEMERAL_SECONDS THEN MAX_EPHEMERAL_SECONDS ELSE lower
       IN Become(t, [t EXCEPT !.pc = "sleep", !.wake = now + upper])
    /\ UNCHANGED << cfgVars, timeVars, sessVars, sharedVars, nframes, accepted, calls, history_sent, global_rx, chan_rx, chan_sub >>

\* Lines 824-826: tokio::time::sleep returns once the delay has passed
ExpiryWake(t) ==
    /\ t.pc = "sleep"
    /\ now' = IF now < t.wake THEN t.wake ELSE now
    /\ Become(t, [t EXCEPT !.pc = "delete"])
    /\ UNCHANGED << cfgVars, ticks, sessVars, sharedVars, nframes, accepted, calls, history_sent, global_rx, chan_rx, chan_sub >>

\* The task goes on to publish whether or not its DELETE removed the row.
ExpiryDeleteAlwaysSends(t) ==
    /\ t.pc = "delete"
    /\ \/ /\ t.id \in DOMAIN messages
          /\ delete_message(t.id)
       \/ /\ t.id \notin DOMAIN messages
          /\ UNCHANGED << messages, reactions >>
    /\ Become(t, [t EXCEPT !.pc = "chan"])
    /\ UNCHANGED << cfgVars, timeVars, sessVars, regVars, voiceVars, busVars, limVars,
                    next_id, db_channels, db_roles, db_voice, nframes, accepted, calls, history_sent, global_rx, chan_rx, chan_sub >>

\* Lines 827-843: the DELETE removed the row, found none, or failed; in the
\* last two cases the task ends
ExpiryDelete(t) ==
    /\ t.pc = "delete"
    /\ \/ /\ t.id \in DOMAIN messages
          /\ delete_message(t.id)
          /\ Become(t, [t EXCEPT !.pc = "chan"])
       \/ /\ t.id \notin DOMAIN messages
          /\ Finish(t)
          /\ UNCHANGED << messages, reactions >>
       \/ /\ Finish(t)
          /\ UNCHANGED << messages, reactions >>
    /\ UNCHANGED << cfgVars, timeVars, sessVars, regVars, voiceVars, busVars, limVars,
                    next_id, db_channels, db_roles, db_voice, nframes, accepted, calls, history_sent, global_rx, chan_rx, chan_sub >>

\* Line 835: the bus of the channel the message was sent on is looked up (or
\* made)
ExpiryChannel(t) ==
    /\ t.pc = "chan"
    /\ get_or_create_channel(t.channel)
    /\ Become(t, [t EXCEPT !.pc = "send", !.bus = BusOf(t.channel)])
    /\ UNCHANGED << cfgVars, timeVars, sessVars, regVars, voiceVars, tx, limVars,
                    dbVars, nframes, accepted, calls, history_sent, global_rx, chan_rx, chan_sub >>

\* Lines 830-836: message-deleted goes out and the task ends
ExpirySend(t) ==
    /\ t.pc = "send"
    /\ PublishOn(t.bus, MessageDeleted(t.id, t.channel))
    /\ Finish(t)
    /\ UNCHANGED << cfgVars, timeVars, sessVars, regVars, voiceVars, channels, tx,
                    limVars, dbVars, nframes, accepted, calls, history_sent, global_rx, chan_rx, chan_sub >>

(***************************************************************************)
(* Ephemeral messages on a server without password.  Every client sends    *)
(* presence first, under its own name, then chat frames with an expiresAt  *)
(* that parses (in the past, or a little ahead) or does not, without a     *)
(* timestamp or with one ten seconds behind the server's clock, and        *)
(* delete-message for message 1.  The handlers and the deletion tasks run  *)
(* on the runtime's scheduler: a step that stays possible is taken.        *)
(***************************************************************************)
ExpiryFrameCount == 4

Rfc3339(secs) == Some([rfc3339 |-> TRUE, secs |-> secs])
NotRfc3339 == Some([rfc3339 |-> FALSE, secs |-> 0])

EphemeralFrame(user, timestamp, expiresAt) ==
    [type |-> "chat", user |-> user, text |-> "hi", channel |-> None,
     timestamp |-> timestamp, expiresAt |-> expiresAt, ephemeral |-> FALSE]

ExpiryFrames(s) ==
    IF ~IsSome(user_name[s])
    THEN {PresenceFrame(Some(IF s = 1 THEN Alice ELSE Bob), None, None, None, None)}
    ELSE {EphemeralFrame(user_name[s], None, Rfc3339(0)),
          EphemeralFrame(user_name[s], None, Rfc3339(MIN_EPHEMERAL_SECONDS + 2)),
          EphemeralFrame(user_name[s], None, NotRfc3339),
          EphemeralFrame(user_name[s], Rfc3339(0 - 2 * MIN_EPHEMERAL_SECONDS), Rfc3339(0)),
          DeleteMessageFrame(Some(1))}

HandlerStep ==
    \/ \E s \in Sessions : PresenceAuth(s)
    \/ \E s \in Sessions : PresenceRegister(s)
    \/ \E s \in Sessions : PresenceKnown(s)
    \/ \E s \in Sessions : PresenceStatus(s)
    \/ \E s \in Sessions : PresenceBroadcastStatus(s)
    \/ \E s \in Sessions : ReadOnline(s, "p_busers", "p_busers2")
    \/ \E s \in Sessions : PresenceBroadcastUsers(s)
    \/ \E s \in Sessions : PresenceSnapshot(s)
    \/ \E s \in Sessions : ChatLimit(s)
    \/ \E s \in Sessions : ChatInsert(s)
    \/ \E s \in Sessions : ChatChannel(s)
    \/ \E s \in Sessions : ChatSend(s)
    \/ \E s \in Sessions : DeleteMessageLookup(s)
    \/ \E s \in Sessions : DeleteMessagePerm(s)
    \/ \E s \in Sessions : DeleteMessageDb(s)
    \/ \E s \in Sessions : DeleteMessageChannel(s)
    \/ \E s \in Sessions : DeleteMessageSend(s)

ExpiryStep ==
    \/ \E t \in expiry_tasks : ExpiryStart(t)
    \/ \E t \in expiry_tasks : ExpiryWake(t)
    \/ \E t \in expiry_tasks : ExpiryDelete(t)
    \/ \E t \in expiry_tasks : ExpiryChannel(t)
    \/ \E t \in expiry_tasks : ExpirySend(t)

NextExpiry ==
    \/ \E s \in Sessions : Connect(s, "ip1")
    \/ \E s \in Sessions : \E f \in ExpiryFrames(s) : RecvFrame(s, f, ExpiryFrameCount)
    \/ HandlerStep
    \/ ExpiryStep

SpecExpiry ==
    /\ InitPresence /\ [][NextExpiry]_vars
    /\ WF_vars(HandlerStep)
    /\ WF_vars(ExpiryStep)

(***************************************************************************)
(* C20: every chat message inserted with a parseable expiresAt is          *)
(* eventually absent from the messages table; when the deletion task's     *)
(* DELETE removed the row, message-deleted with the stored id and channel  *)
(* is published on that channel's bus; when the row was already gone the   *)
(* task publishes nothing.                                                 *)
(***************************************************************************)
C20_EphemeralExpires ==
    \A id \in 1 .. ExpiryFrameCount :
        (id \in DOMAIN messages /\ messages[id].ephemeral) ~> (id \notin DOMAIN messages)

(***************************************************************************)
(* C21: for a chat frame with a parseable expiresAt, the expiry used to    *)
(* schedule the deletion is clamped so that the message is deleted no      *)
(* sooner than 5 s and no later than 86 400 s after the server inserted    *)
(* it, whatever timestamp and expiresAt the client supplied: the expiry    *)
(* stored at the INSERT is at least 5 s after the clock of the INSERT, and *)
(* the task sleeps until that expiry but for no more than 86 400 s.        *)
(***************************************************************************)
C21_ExpiryWithinBounds ==
    [][/\ \A id \in DOMAIN messages' \ DOMAIN messages :
             messages'[id].ephemeral =>
                 Unwrap(messages'[id].expiresAt).secs >= now + MIN_EPHEMERAL_SECONDS
       /\ \A t \in expiry_tasks :
             (t.pc = "start" /\ t \notin expiry_tasks') =>
                 \E u \in expiry_tasks' \ expiry_tasks :
                    /\ u.id = t.id /\ u.pc = "sleep"
                    /\ u.wake <= now + MAX_EPHEMERAL_SECONDS
                    /\ u.wake >= now
                    /\ u.wake >= t.expiry \/ u.wake = now + MAX_EPHEMERAL_SECONDS
      ]_vars

(***************************************************************************)
(* History runs: a server that starts on a messages table filled by        *)
(* earlier runs, with more rows of 'general' than one request may load.    *)
(* Session 1 asks for history, session 2 writes to 'general'.              *)
(***************************************************************************)
HistoryFrameCount == 3
HistoryRows == 240

\* every seventh stored row belongs to another channel
StoredMessages ==
    [id \in 1 .. HistoryRows |->
        ChatRow(ChatFrame(Some(Alice), "hi"), IF id % 7 = 0 THEN Dev ELSE General)]

LoadHistoryFrame(before, limit) ==
    [type |-> "load-history", before |-> before, limit |-> limit]

HistoryBefores ==
    {None, Some(I64(0, 0)), Some(I64(0, HistoryRows - 1)), Some(I64(1, 0))}
HistoryLimits == {None, Some(0 - 1), Some(0), Some(2), Some(MAX_HISTORY_LIMIT + 1)}

HistoryFrames(s) ==
    IF s = 1
    THEN {JoinFrame(Some(Dev))} \cup
         {LoadHistoryFrame(b, l) : b \in HistoryBefores, l \in HistoryLimits}
    ELSE {ChatFrame(Some(Bob), "hi")}

InitHistory == InitState({None}, {None}, {EmptyMap}, {StoredMessages})

NextHistory ==
    \/ \E s \in Sessions : Connect(s, "ip1")
    \/ \E s \in Sessions : \E f \in HistoryFrames(s) : RecvFrame(s, f, HistoryFrameCount)
    \/ \E s \in Sessions : handle_load_history(s)
    \/ \E s \in Sessions : JoinChannel(s)
    \/ \E s \in Sessions : JoinHistory(s)
    \/ \E s \in Sessions : ChatLimit(s)
    \/ \E s \in Sessions : ChatInsert(s)
    \/ \E s \in Sessions : ChatChannel(s)
    \/ \E s \in Sessions : ChatSend(s)

SpecHistory == InitHistory /\ [][NextHistory]_vars

\* C22: a load-history request with 'before' = b and 'limit' = L is answered
\* with the min(L, 200, available) messages of the session's channel that have
\* the largest ids strictly below b (the newest when b is absent, L = 50 when
\* the limit is absent), in increasing id order, and with no message of
\* another channel.
C22_Available(s) ==
    {id \in DOMAIN messages :
        /\ messages[id].channel = channel[s]
        /\ IsSome(frame[s].before) => BelowI64(id, Unwrap(frame[s].before))}

C22_Count(s) ==
    LET asked == IF IsSome(frame[s].limit) THEN Unwrap(frame[s].limit)
                 ELSE DEFAULT_HISTORY_LIMIT
        sizes == {asked, MAX_HISTORY_LIMIT, Cardinality(C22_Available(s))}
    IN CHOOSE n \in sizes : \A m \in sizes : n <= m

C22_Slice(s, payload) ==
    /\ Len(payload) = C22_Count(s)
    /\ \A i \in 1 .. Len(payload) : payload[i] \in C22_Available(s)
    /\ \A i \in 1 .. Len(payload) - 1 : payload[i] < payload[i + 1]
    /\ Cardinality({id \in C22_Available(s) : id >= payload[1]}) = Len(payload)

C22_HistorySlice ==
    [][\A s \in Sessions :
          (pc[s] = "lh_send" /\ pc'[s] = "loop") =>
              IF C22_Count(s) <= 0
              THEN history_sent'[s] = history_sent[s]
              ELSE /\ Len(history_sent'[s]) = Len(history_sent[s]) + 1
                   /\ C22_Slice(s, history_sent'[s][Len(history_sent'[s])])
      ]_vars

(***************************************************************************)
(* The dispatch loop with its three branches: frames of the peer, events   *)
(* of the channel's bus, events of the global bus.  On the server with a   *)
(* password one peer goes through the authentication pipeline and sends     *)
(* frames of every kind while a second one stays unauthenticated; on the    *)
(* server without one a single peer floods                                  *)
(* the server with one kind of frame, so that its own receiver falls       *)
(* behind by more than a bus keeps.                                        *)
(***************************************************************************)
LoopFrameCount == 3
FloodFrameCount == BusCapacity + 2

UnknownFrame == [type |-> "bogus"]

LoopFrames(s) ==
    IF password # None
    THEN IF s = 1
         THEN IF ~authenticated[s]
              THEN PresenceFrames(now) \cup {PingFrame}
              ELSE {PingFrame, OfferFrame, UnknownFrame,
                    ChannelFrame("create-channel", Some(<< " ", "b" >>))}
         ELSE {PresenceFrame(Some(Bob), Some("wrong"), None, None, None),
               PingFrame, UnknownFrame}
    ELSE IF nframes = 0 THEN {OfferFrame, ChatFrame(Some(Bob), "hi")}
    ELSE IF tx # << >> THEN {OfferFrame}
    ELSE {ChatFrame(Some(Bob), "hi")}

LoopFrameMax == IF password # None THEN LoopFrameCount ELSE FloodFrameCount

InitLoop == InitState({None, Some("pw")}, {None}, {EmptyMap}, {EmptyMap})

NextLoop ==
    \/ \E s \in Sessions : (password # None \/ s = 1) /\ Connect(s, "ip1")
    \/ \E s \in Sessions : \E f \in LoopFrames(s) : RecvFrame(s, f, LoopFrameMax)
    \/ \E s \in Sessions : password # None /\ RecvInvalid(s, LoopFrameMax)
    \/ \E s \in Sessions : RecvNonText(s)
    \/ \E s \in Sessions : \E sent \in BOOLEAN : ForwardChannel(s, sent)
    \/ \E s \in Sessions : LaggedChannel(s)
    \/ \E s \in Sessions : \E sent \in BOOLEAN : ForwardGlobal(s, sent)
    \/ \E s \in Sessions : LaggedGlobal(s)
    \/ \E s \in Sessions : Ping(s)
    \/ \E s \in Sessions : Relay(s)
    \/ \E s \in Sessions : CreateChannelCheck(s)
    \/ \E s \in Sessions : ChatLimit(s)
    \/ \E s \in Sessions : ChatInsert(s)
    \/ \E s \in Sessions : ChatChannel(s)
    \/ \E s \in Sessions : ChatSend(s)
    \/ \E s \in Sessions : PresenceAuth(s)
    \/ \E s \in Sessions : PresenceNonce(s)
    \/ \E s \in Sessions : PresenceRegister(s)
    \/ \E s \in Sessions : PresenceKnown(s)
    \/ \E s \in Sessions : PresenceStatus(s)
    \/ \E s \in Sessions : PresenceBroadcastStatus(s)
    \/ \E s \in Sessions : ReadOnline(s, "p_busers", "p_busers2")
    \/ \E s \in Sessions : PresenceBroadcastUsers(s)
    \/ \E s \in Sessions : PresenceKeys(s)
    \/ \E s \in Sessions : PresenceRole(s)
    \/ \E s \in Sessions : PresenceSnapshot(s)
    \/ \E s \in Sessions : DisconnectUsers(s)
    \/ \E s \in Sessions : ReadOnline(s, "d_busers", "d_busers2")
    \/ \E s \in Sessions : DisconnectBroadcastUsers(s)
    \/ \E s \in Sessions : DisconnectVoice(s)
    \/ \E s \in Sessions : DisconnectStatus(s)
    \/ \E s \in Sessions : DisconnectBroadcastStatus(s)

SpecLoop == InitLoop /\ [][NextLoop]_vars

\* C23: the dispatch loop of a session is left only on an inbound frame that
\* is not text or a read error, on a failed forward of a bus event (both leave
\* without a reply, from the head of the loop), or with one of the terminal
\* authentication errors as the last reply; a text frame that is not JSON or
\* has no known type, a reply with any other error code, and a lagged bus
\* receiver all leave the session in the loop.
C23_Terminal ==
    {"unauthenticated", "invalid-password", "auth-rate-limit", "invalid-timestamp",
     "replay-attack", "invalid-signature", "invalid-signature-format",
     "invalid-public-key", "invalid-key-length", "invalid-encoding",
     "invalid-username"}

C23_LoopExits ==
    [][\A s \in Sessions :
          /\ (pc[s] \notin {"none", "exit"} /\ pc'[s] = "exit") =>
                \/ /\ pc[s] = "loop"
                   /\ nframes' = nframes
                   /\ out'[s] = out[s]
                   /\ global_rx'[s] - global_rx[s] \in {0, 1}
                   /\ chan_rx'[s] - chan_rx[s] \in {0, 1}
                \/ /\ pc[s] = "loop"
                   /\ nframes' = nframes + 1
                   /\ out'[s] = Append(out[s], "unauthenticated")
                \/ /\ pc[s] \notin {"loop"}
                   /\ frame[s].type = "presence"
                   /\ \E code \in C23_Terminal \ {"unauthenticated"} :
                         out'[s] = Append(out[s], code)
          /\ (pc[s] = "loop" /\ nframes' = nframes + 1 /\ out'[s] = out[s]) =>
                pc'[s] # "exit"
          /\ (Len(out'[s]) = Len(out[s]) + 1
                /\ out'[s][Len(out'[s])] \notin C23_Terminal) => pc'[s] # "exit"
          /\ (/\ pc[s] = "loop"
              /\ global_rx'[s] > global_rx[s] + 1 \/ chan_rx'[s] > chan_rx[s] + 1) =>
                pc'[s] = "loop"
      ]_vars

\* one session was closed with a terminal error while another, refused a
\* channel name, is still in its loop
C23_Witness ==
    \E s, t \in Sessions :
       /\ pc[s] = "loop" /\ out[s] # << >>
       /\ out[s][Len(out[s])] = "invalid-channel-name"
       /\ pc[t] = "exit" /\ out[t] # << >>
       /\ out[t][Len(out[t])] \in C23_Terminal

\* C24: in every state the online set is contained in the known set, the
\* known set never loses a name, and every online-users event has its
\* 'users' contained in its 'all', whatever the interleaving of the presence
\* and disconnect handlers.
C24_PayloadsContained ==
    \A i \in 1 .. Len(tx) :
       tx[i].type = "online-users" => tx[i].users \subseteq tx[i].all

C24_OnlineWithinKnown ==
    [][/\ users' \subseteq known_users'
       /\ known_users \subseteq known_users'
       /\ C24_PayloadsContained'
      ]_vars

(***************************************************************************)
(* admin::set_role, the handler of POST /role.  It runs as a task of its   *)
(* own next to the sessions; each of its awaits ends a step.               *)
(***************************************************************************)
\* the reply is sent: the HTTP side is at rest again
Respond(status) ==
    http' = [http EXCEPT !.pc = "idle", !.status = status, !.served = @ + 1]

\* admin.rs 38-45: a token is configured and the bearer token equals it
Authorized(bearer) == IsSome(admin_token) /\ Unwrap(admin_token) = bearer

\* admin.rs 38-50: the request arrives with its bearer token and body
SetRoleAuth(bearer, key, role, color, max) ==
    /\ http.pc = "idle"
    /\ http.served < max
    /\ http' = IF ~Authorized(bearer)
               THEN [NoRequest EXCEPT !.bearer = bearer, !.key = key,
                                      !.status = 401, !.served = http.served + 1]
               ELSE [NoRequest EXCEPT !.pc = "sr_db", !.bearer = bearer, !.key = key,
                        !.info = [role |-> role,
                                  color |-> IF IsSome(color) THEN color
                                            ELSE default_color(role)],
                        !.served = http.served]
    /\ UNCHANGED << password, admin_token, timeVars, sessVars, sharedVars, nframes,
                    accepted, calls, expiry_tasks, history_sent, global_rx, chan_rx, chan_sub >>

\* admin.rs 51-54: db::set_role, an upsert of the key's row, or an error
SetRoleDb ==
    /\ http.pc = "sr_db"
    /\ \/ /\ db_roles' = Put(db_roles, http.key, http.info)
          /\ http' = [http EXCEPT !.pc = "sr_keys"]
       \/ /\ Respond(500)
          /\ UNCHANGED db_roles
    /\ UNCHANGED << password, admin_token, timeVars, sessVars, regVars, voiceVars,
                    busVars, limVars, messages, next_id, reactions, db_channels,
                    db_voice, nframes, accepted, calls, expiry_tasks, history_sent,
                    global_rx, chan_rx, chan_sub >>

\* admin.rs 55-63: the users registered with the key, under the user_keys lock
SetRoleKeys ==
    /\ http.pc = "sr_keys"
    /\ http' = [http EXCEPT !.pc = "sr_roles",
                            !.affected = {u \in DOMAIN user_keys : user_keys[u] = http.key}]
    /\ UNCHANGED << password, admin_token, timeVars, sessVars, sharedVars, nframes,
                    accepted, calls, expiry_tasks, history_sent, global_rx, chan_rx, chan_sub >>

\* admin.rs 64-73: their entries of the role map, under the roles lock
SetRoleRoles ==
    /\ http.pc = "sr_roles"
    /\ roles' = [u \in DOMAIN roles \cup http.affected |->
                    IF u \in http.affected THEN http.info ELSE roles[u]]
    /\ http' = [http EXCEPT !.pc = "sr_send"]
    /\ UNCHANGED << password, admin_token, timeVars, sessVars, users, known_users,
                    statuses, user_keys, voiceVars, busVars, limVars, dbVars, nframes,
                    accepted, calls, expiry_tasks, history_sent, global_rx, chan_rx, chan_sub >>

\* admin.rs 74-83: one role-update on the global bus for each of them, in the
\* order of the list
SetRoleSend ==
    /\ http.pc = "sr_send"
    /\ \E u \in http.affected :
          /\ \A i \in 1 .. Len(http.sent) : http.sent[i] # u
          /\ Publish(RoleUpdate(u, http.info))
          /\ http' = [http EXCEPT !.sent = Append(@, u)]
    /\ UNCHANGED << password, admin_token, timeVars, sessVars, regVars, voiceVars,
                    channels, chan_log, limVars, dbVars, nframes, accepted, calls,
                    expiry_tasks, history_sent, global_rx, chan_rx, chan_sub >>

\* admin.rs 84
SetRoleOk ==
    /\ http.pc = "sr_send"
    /\ Len(http.sent) = Cardinality(http.affected)
    /\ Respond(200)
    /\ UNCHANGED << password, admin_token, timeVars, sessVars, sharedVars, nframes,
                    accepted, calls, expiry_tasks, history_sent, global_rx, chan_rx, chan_sub >>

(***************************************************************************)
(* Role runs: two peers register under the same public key, which has a    *)
(* row in the roles table, while POST /role requests are served.           *)
(***************************************************************************)
AdminRequestCount == 1
AdminFrameCount == 2

\* request bodies: a standard role without colour, another role with one
RoleBodies ==
    {[key |-> "k1", role |-> "Mod", color |-> None],
     [key |-> "k1", role |-> "Custom", color |-> Some("#fff")]}

AdminFrames(s) ==
    {PresenceFrame(Some(IF s = 1 THEN Alice ELSE Bob), None, Some("k1"), None, None)}

NextAdmin ==
    \/ \E s \in Sessions : Connect(s, "ip1")
    \/ \E s \in Sessions : \E f \in AdminFrames(s) : RecvFrame(s, f, AdminFrameCount)
    \/ \E s \in Sessions : PresenceAuth(s)
    \/ \E s \in Sessions : PresenceRegister(s)
    \/ \E s \in Sessions : PresenceKnown(s)
    \/ \E s \in Sessions : PresenceStatus(s)
    \/ \E s \in Sessions : PresenceBroadcastStatus(s)
    \/ \E s \in Sessions : ReadOnline(s, "p_busers", "p_busers2")
    \/ \E s \in Sessions : PresenceBroadcastUsers(s)
    \/ \E s \in Sessions : PresenceKeys(s)
    \/ \E s \in Sessions : PresenceRole(s)
    \/ \E s \in Sessions : PresenceRoles(s)
    \/ \E s \in Sessions : PresenceBroadcastRole(s)
    \/ \E s \in Sessions : PresenceSnapshot(s)
    \/ \E bearer \in {"tok", "bad"}, body \in RoleBodies :
          SetRoleAuth(bearer, body.key, body.role, body.color, AdminRequestCount)
    \/ SetRoleDb
    \/ SetRoleKeys
    \/ SetRoleRoles
    \/ SetRoleSend
    \/ SetRoleOk

SpecAdmin == InitManage /\ [][NextAdmin]_vars

\* C25: a POST /role request changes state only if an admin token is
\* configured and the bearer token equals it; otherwise it is answered 401
\* and the roles table, the role map and the global bus stay as they are.
\* When a request is answered 200, every user whose user_keys entry equals
\* the key of the body has the role of the body in the role map, with the
\* colour of the body or else the default colour of the role name, and the
\* handler has published exactly one role-update for each such user.
C25_Keyed(key) == {u \in DOMAIN user_keys : user_keys[u] = key}

C25_SetRole ==
    [][/\ (http.pc = "idle" /\ http' # http /\ ~Authorized(http'.bearer)) =>
             /\ http'.pc = "idle" /\ http'.status = 401
             /\ UNCHANGED << db_roles, roles, tx >>
       /\ http.pc # "idle" => Authorized(http.bearer)
       /\ (http.pc # "idle" /\ http'.pc = "idle" /\ http'.status = 200) =>
             /\ db_roles'[http.key] = http.info
             /\ \A u \in C25_Keyed(http.key)' :
                   /\ u \in DOMAIN roles'
                   /\ roles'[u] = http.info
                   /\ Cardinality({i \in 1 .. Len(http.sent) : http.sent[i] = u}) = 1
             /\ \A i \in 1 .. Len(http.sent) : http.sent[i] \in C25_Keyed(http.key)'
      ]_vars

(***************************************************************************)
(* The validators of security.rs called directly, as validates_timestamps, *)
(* validates_channel_names and validates_user_names of                     *)
(* tests/security_limits.rs call them.                                     *)
(***************************************************************************)
ValidateCalls == 2
ValidateTicks == 1
ValidateTimeSteps == {1}

\* Distances from now, in milliseconds, on both sides of every limit
TimestampOffsets ==
    {0 - TimestampPastMs - 1, 0 - TimestampPastMs, 0 - TimestampWindowMs - 1,
     0 - TimestampWindowMs, 0 - 1, 0, 1, TimestampWindowMs, TimestampWindowMs + 1,
     TimestampFutureMs, TimestampFutureMs + 1}

\* Timestamp strings: decimal numbers around now_ms, with and without a
\* leading "+", the ends of the i64 range, and a string that is no number.
TimestampStrings(now_ms) ==
    {TsStr(plus, now_ms + off) : plus \in BOOLEAN, off \in TimestampOffsets}
    \cup {TsEdge(0 - 1, 0), TsEdge(0 - 1, now_ms), TsEdge(0 - 1, now_ms + 1),
          TsEdge(1, 0 - 1), TsEdge(1, 0 - TimestampWindowMs)}
    \cup {TsGarbage}

\* security::validate_timestamp(timestamp_str), built with or without
\* overflow checks
ValidateTimestamp(ts) ==
    /\ Len(calls) < ValidateCalls
    /\ \E checks \in BOOLEAN :
          LET verdict == IF checks /\ timestamp_panics(ts, now * 1000) THEN "panic"
                         ELSE IF IsSome(validate_timestamp(ts, now * 1000)) THEN "Ok"
                         ELSE "Err"
          IN calls' = Append(calls, Call("timestamp", ts, now, verdict))
    /\ UNCHANGED << cfgVars, timeVars, sessVars, sharedVars, nframes, accepted,
                    expiry_tasks, history_sent, global_rx, chan_rx, chan_sub >>

\* n times the character c
Repeat(c, n) == [i \in 1 .. n |-> c]

\* Names: empty, blank, with blanks or a tab at either end or inside, with
\* a character outside the set, with a two-byte letter, and of the lengths
\* around both limits in characters and in bytes.
NameStrings ==
    {<< >>, << " " >>, << "a" >>, << "E" >>, << "!" >>, << "-", "_", "1" >>,
     << " ", "a" >>, << "a", " " >>, << "T", "a" >>, << "a", "T" >>,
     << "a", " ", "b" >>, << "a", "T", "b" >>, << "a", "E" >>}
    \cup {Repeat("a", n) : n \in {UserNameMax, UserNameMax + 1,
                                  ChannelNameMax, ChannelNameMax + 1}}
    \cup {Repeat("E", n) : n \in {UserNameMax \div 2, UserNameMax \div 2 + 1,
                                  ChannelNameMax \div 2, ChannelNameMax \div 2 + 1}}

\* security::validate_channel_name(name)
ValidateChannelName(name) ==
    /\ Len(calls) < ValidateCalls
    /\ calls' = Append(calls, Call("channel_name", name, ChannelNameMax,
                                   IF validate_channel_name(name) THEN "true" ELSE "false"))
    /\ UNCHANGED << cfgVars, timeVars, sessVars, sharedVars, nframes, accepted,
                    expiry_tasks, history_sent, global_rx, chan_rx, chan_sub >>

\* security::validate_user_name(name)
ValidateUserName(name) ==
    /\ Len(calls) < ValidateCalls
    /\ calls' = Append(calls, Call("user_name", name, UserNameMax,
                                   IF validate_user_name(name) THEN "true" ELSE "false"))
    /\ UNCHANGED << cfgVars, timeVars, sessVars, sharedVars, nframes, accepted,
                    expiry_tasks, history_sent, global_rx, chan_rx, chan_sub >>

NextValidate ==
    \/ \E ts \in TimestampStrings(now * 1000) : ValidateTimestamp(ts)
    \/ \E name \in NameStrings : ValidateChannelName(name)
    \/ \E name \in NameStrings : ValidateUserName(name)
    \/ Tick(ValidateTimeSteps, ValidateTicks)

SpecValidate == InitPresence /\ [][NextValidate]_vars

(***************************************************************************)
(* C26: validate_timestamp accepts a string exactly when it is an integer  *)
(* t with |now - t| <= 60 000 ms; an accepted t is then at most one hour   *)
(* ahead of now and at most 24 hours behind it, and a string that is not   *)
(* an integer is rejected.                                                 *)
(***************************************************************************)
C26_Near(ts, at) ==
    /\ ts.numeric
    /\ ts.edge = 0
    /\ at * 1000 - ts.val <= TimestampWindowMs
    /\ ts.val - at * 1000 <= TimestampWindowMs

C26_TimestampWindow ==
    \A i \in 1 .. Len(calls) :
       LET c == calls[i] IN
       c.fn = "timestamp" =>
          /\ c.ok = "Ok" <=> C26_Near(c.key, c.at)
          /\ c.ok = "Ok" => /\ c.key.val <= c.at * 1000 + TimestampFutureMs
                            /\ c.key.val >= c.at * 1000 - TimestampPastMs
          /\ ~c.key.numeric => c.ok = "Err"

C26_Witness ==
    /\ \E i \in 1 .. Len(calls) :
          /\ calls[i].fn = "timestamp"
          /\ calls[i].ok = "Ok"
          /\ calls[i].key.plus
          /\ calls[i].key.val - calls[i].at * 1000 = TimestampWindowMs
    /\ \E i \in 1 .. Len(calls) :
          /\ calls[i].fn = "timestamp"
          /\ calls[i].ok = "Err"
          /\ calls[i].key.edge # 0
          /\ timestamp_panics(calls[i].key, calls[i].at * 1000)

(***************************************************************************)
(* C27: validate_channel_name (at most 50 characters) and                  *)
(* validate_user_name (at most 32) return true exactly when the name       *)
(* equals its trimmed form, has between 1 and the maximal number of        *)
(* characters, and every character is one of A-Z, a-z, 0-9, '-', '_' or    *)
(* the space.                                                              *)
(***************************************************************************)
C27_Valid(name, maxlen) ==
    /\ Trim(name) = name
    /\ 1 <= Len(name)
    /\ Len(name) <= maxlen
    /\ \A i \in 1 .. Len(name) :
          IsAsciiAlphanumeric(name[i]) \/ name[i] \in {"-", "_", " "}

C27_NameValidation ==
    \A i \in 1 .. Len(calls) :
       LET c == calls[i] IN
       c.fn \in {"channel_name", "user_name"} =>
          (c.ok = "true" <=> C27_Valid(c.key, c.at))

(***************************************************************************)
(* C30: on a server with a password, a session that has not been           *)
(* authenticated is sent no event of the global bus and none of the bus of *)
(* the general channel: what other sessions publish is forwarded to        *)
(* authenticated sessions only.                                            *)
(***************************************************************************)
C30_Forwarded(s) ==
    /\ pc[s] = "loop"
    /\ global_rx'[s] = global_rx[s] + 1 \/ chan_rx'[s] = chan_rx[s] + 1
    /\ Len(out'[s]) = Len(out[s]) + 1

C30_ForwardedAfterAuth ==
    [][\A s \in Sessions :
          (password # None /\ C30_Forwarded(s)) => authenticated[s]]_vars

(***************************************************************************)
(* C28: no handler sends to its peer, goes to the database or publishes    *)
(* on a bus while it holds a mutex of AppState; on every path, the error   *)
(* paths of update-voice-channel included, the guard is released before    *)
(* the I/O starts.                                                         *)
(***************************************************************************)
C28_Acts(s) == pc'[s] # pc[s] \/ out'[s] # out[s]

C28_InputOutput ==
    \/ out' # out
    \/ tx' # tx
    \/ chan_log' # chan_log
    \/ dbVars' # dbVars

C28_NoIoUnderLock ==
    [][\A s \in Sessions : (C28_Acts(s) /\ C28_InputOutput) => Held(s) = {}]_vars

(***************************************************************************)
(* A session that registers and updates a voice room, a session that      *)
(* joins the room, and a POST /role request, on a server with an admin     *)
(* token.                                                                  *)
(***************************************************************************)
LockFrameCount == 3
LockRequestCount == 1

LockFrames(s) ==
    IF s = 1
    THEN IF ~IsSome(user_name[s])
         THEN {PresenceFrame(Some(Alice), None, Some("k1"), None, None)}
         ELSE {[ManageVoiceFrame("update-voice-channel", Some(Stage))
                   EXCEPT !.quality = Some(<< "b" >>)]}
    ELSE {VoiceFrame("voice-join", Some(Bob), Some(Stage))}

InitLocks == InitState({None}, {Some("tok")}, {RoleTable}, {EmptyMap})

NextLocks ==
    \/ \E s \in Sessions : Connect(s, "ip1")
    \/ \E s \in Sessions : \E f \in LockFrames(s) : RecvFrame(s, f, LockFrameCount)
    \/ \E s \in Sessions : Relay(s)
    \/ \E s \in Sessions : PresenceAuth(s)
    \/ \E s \in Sessions : PresenceRegister(s)
    \/ \E s \in Sessions : PresenceKnown(s)
    \/ \E s \in Sessions : PresenceStatus(s)
    \/ \E s \in Sessions : PresenceBroadcastStatus(s)
    \/ \E s \in Sessions : ReadOnline(s, "p_busers", "p_busers2")
    \/ \E s \in Sessions : PresenceBroadcastUsers(s)
    \/ \E s \in Sessions : PresenceKeys(s)
    \/ \E s \in Sessions : PresenceRole(s)
    \/ \E s \in Sessions : PresenceRoles(s)
    \/ \E s \in Sessions : PresenceBroadcastRole(s)
    \/ \E s \in Sessions : PresenceSnapshot(s)
    \/ \E s \in Sessions : VoiceJoinLock(s)
    \/ \E s \in Sessions : VoiceJoinBroadcastNew(s)
    \/ \E s \in Sessions : ReadVoice(s, "vj_read", "vj_send")
    \/ \E s \in Sessions : SendVoice(s, "vj_send", "relay")
    \/ \E s \in Sessions : UpdateVoiceCheck(s)
    \/ \E s \in Sessions : UpdateVoiceRead(s)
    \/ \E s \in Sessions : UpdateVoiceUnknown(s)
    \/ \E s \in Sessions : UpdateVoiceDb(s)
    \/ SetRoleAuth("tok", "k1", "Mod", None, LockRequestCount)
    \/ SetRoleDb
    \/ SetRoleKeys
    \/ SetRoleRoles
    \/ SetRoleSend
    \/ SetRoleOk

SpecLocks == InitLocks /\ [][NextLocks]_vars

(***************************************************************************)
(* C29: no interleaving of the session handlers and the role endpoint      *)
(* deadlocks on the mutexes of AppState: a task never asks for a mutex     *)
(* that comes before one it holds in the order users, known, statuses,     *)
(* roles, keys, voice_channels.                                            *)
(***************************************************************************)
C29_Order ==
    << "users", "known_users", "statuses", "roles", "user_keys", "voice_channels" >>
C29_Rank(m) == CHOOSE i \in 1 .. Len(C29_Order) : C29_Order[i] = m

\* every task of the set waits for a guard that a task of the set holds
C29_Deadlocked(set) ==
    /\ set # {}
    /\ \A t \in set : \E m \in Wanted(t) : \E u \in set : m \in Held(u)

C29_LockOrder ==
    /\ \A t \in Tasks : \A h \in Held(t) : \A m \in Wanted(t) :
          C29_Rank(h) < C29_Rank(m)
    /\ \A set \in SUBSET Tasks : ~C29_Deadlocked(set)

\* One session holds the guard of the voice rooms, the other waits for it,
\* and the role endpoint is about to lock the role map.
C29_Witness ==
    /\ \E s \in Sessions : "voice_channels" \in Held(s)
    /\ \E t \in Sessions : "voice_channels" \in Wanted(t) /\ ~Free("voice_channels", t)
    /\ Wanted(AdminTask) = {"roles"}

(***************************************************************************)
(* Two sessions that register the same user name on a server with an admin *)
(* token: the first with the key that has the role 'admin' in the roles    *)
(* table, the second with a key that has no role or with no key at all.    *)
(* Both then ask to create a channel; either may go away.                  *)
(***************************************************************************)
RoleFrameCount == 4

OwnerTable == Put(EmptyMap, "k1", [role |-> "admin", color |-> None])

\* the public keys a session puts into its presence frame
PresentedKeys(s) == IF s = 1 THEN {Some("k1")} ELSE {None, Some("k2")}

RoleFrames(s) ==
    IF ~IsSome(user_name[s])
    THEN {PresenceFrame(Some(Alice), None, pk, None, None) : pk \in PresentedKeys(s)}
    ELSE {ChannelFrame("create-channel", Some(Dev))}

InitRoles == InitState({None}, {Some("tok")}, {OwnerTable}, {EmptyMap})

NextRoles ==
    \/ \E s \in Sessions : Connect(s, "ip1")
    \/ \E s \in Sessions : \E f \in RoleFrames(s) : RecvFrame(s, f, RoleFrameCount)
    \/ \E s \in Sessions : RecvNonText(s)
    \/ \E s \in Sessions : PresenceAuth(s)
    \/ \E s \in Sessions : PresenceRegister(s)
    \/ \E s \in Sessions : PresenceKnown(s)
    \/ \E s \in Sessions : PresenceStatus(s)
    \/ \E s \in Sessions : PresenceBroadcastStatus(s)
    \/ \E s \in Sessions : ReadOnline(s, "p_busers", "p_busers2")
    \/ \E s \in Sessions : PresenceBroadcastUsers(s)
    \/ \E s \in Sessions : PresenceKeys(s)
    \/ \E s \in Sessions : PresenceRole(s)
    \/ \E s \in Sessions : PresenceRoles(s)
    \/ \E s \in Sessions : PresenceBroadcastRole(s)
    \/ \E s \in Sessions : PresenceSnapshot(s)
    \/ \E s \in Sessions : CreateChannelCheck(s)
    \/ \E s \in Sessions : CreateChannelDb(s)
    \/ \E s \in Sessions : CreateChannelBus(s)
    \/ \E s \in Sessions : CreateChannelBroadcast(s)
    \/ \E s \in Sessions : DisconnectUsers(s)
    \/ \E s \in Sessions : ReadOnline(s, "d_busers", "d_busers2")
    \/ \E s \in Sessions : DisconnectBroadcastUsers(s)
    \/ \E s \in Sessions : DisconnectVoice(s)
    \/ \E s \in Sessions : DisconnectStatus(s)
    \/ \E s \in Sessions : DisconnectBroadcastStatus(s)

SpecRoles == InitRoles /\ [][NextRoles]_vars

(***************************************************************************)
(* C31: with an admin token configured, a session gets past the permission *)
(* check only if the public key of its own presence frame has the role     *)
(* Admin, Mod or Owner in the roles table; a role installed for a user     *)
(* name by an earlier session gives nothing to a later session that        *)
(* registers the name with another key or with none.                       *)
(***************************************************************************)
C31_KeyManages(s) ==
    \E pk \in PresentedKeys(s) :
       /\ IsSome(pk)
       /\ Unwrap(pk) \in DOMAIN db_roles
       /\ db_roles[Unwrap(pk)].role \in C13_ManageRoles

C31_PermissionByOwnKey ==
    [][\A s \in Sessions :
          (IsSome(admin_token) /\ pc[s] = "cc_perm" /\ pc'[s] = "cc_db")
             => C31_KeyManages(s)]_vars

(***************************************************************************)
(* C32: the "user" field stored with a chat message is the registered user *)
(* name of the session that sent the chat frame, so that only a session    *)
(* registered under the sender's name passes the author check of           *)
(* delete-message.                                                         *)
(***************************************************************************)
C32_StoredUserIsSender ==
    [][\A s \in Sessions :
          (pc[s] = "c_insert" /\ messages' # messages) =>
             messages'[next_id].user = user_name[s]]_vars

(***************************************************************************)
(* C33: a presence attempt that fails at the decoding of key or signature  *)
(* or at the verification of the signature leaves the nonce store as it    *)
(* is, so that a later presence frame with the same publicKey and          *)
(* timestamp and a valid signature is not answered 'replay-attack'.        *)
(***************************************************************************)
C33_VerifyErrors ==
    {"invalid-encoding", "invalid-key-length", "invalid-public-key",
     "invalid-signature-format", "invalid-signature"}

C33_FailedVerify(s) ==
    /\ pc[s] = "p_nonce"
    /\ Len(out'[s]) = Len(out[s]) + 1
    /\ out'[s][Len(out'[s])] \in C33_VerifyErrors

C33_FailureKeepsNonceFree ==
    [][\A s \in Sessions :
          C33_FailedVerify(s) =>
             /\ DOMAIN used_nonces' \subseteq DOMAIN used_nonces
             /\ \A n \in DOMAIN used_nonces' : used_nonces'[n] = used_nonces[n]]_vars

(***************************************************************************)
(* Sessions on a server without password that join the channel 'dev' and  *)
(* chat there, in any interleaving; the peers take every frame they are    *)
(* sent.                                                                   *)
(***************************************************************************)
JoinFrameCount == 5

JoinChatFrames == {JoinFrame(Some(Dev)), ChatFrame(None, "hi")}

NextJoin ==
    \/ \E s \in Sessions : Connect(s, "ip1")
    \/ \E s \in Sessions : \E f \in JoinChatFrames : RecvFrame(s, f, JoinFrameCount)
    \/ \E s \in Sessions : ForwardChannel(s, TRUE)
    \/ \E s \in Sessions : JoinChannel(s)
    \/ \E s \in Sessions : JoinHistory(s)
    \/ \E s \in Sessions : ChatLimit(s)
    \/ \E s \in Sessions : ChatInsert(s)
    \/ \E s \in Sessions : ChatChannel(s)
    \/ \E s \in Sessions : ChatSend(s)

SpecJoin == InitPresence /\ [][NextJoin]_vars

(***************************************************************************)
(* C34: a session that has joined a text channel misses none of its        *)
(* messages (the channel is not deleted meanwhile, the session does not    *)
(* lag, fewer than 50 messages): every stored chat of the channel is in    *)
(* the history snapshot of the join, or its event lies on the bus of the   *)
(* session's receiver behind the point where the join subscribed, or its   *)
(* sender has still to publish it.  A message may be in both.              *)
(***************************************************************************)
C34_InSnapshot(s, id) ==
    \E i \in 1 .. Len(history_sent[s]) :
       \E k \in 1 .. Len(history_sent[s][i]) : history_sent[s][i][k] = id

C34_OnSubscription(s, id) ==
    \E i \in chan_sub[s] + 1 .. Len(chan_log[chan_tx[s]]) :
       /\ chan_log[chan_tx[s]][i].type = "chat"
       /\ chan_log[chan_tx[s]][i].id = id

C34_Delivered(s, id) ==
    \E i \in chan_sub[s] + 1 .. chan_rx[s] :
       /\ chan_log[chan_tx[s]][i].type = "chat"
       /\ chan_log[chan_tx[s]][i].id = id

C34_ToBePublished(id) ==
    \E t \in Sessions :
       /\ pc[t] \in {"c_chan", "c_send"}
       /\ \E r \in local[t] : r.id = id

C35_BusInIdOrder ==
    \A b \in DOMAIN chan_log :
       \A i, j \in 1 .. Len(chan_log[b]) :
          (i < j /\ chan_log[b][i].type = "chat" /\ chan_log[b][j].type = "chat")
             => chan_log[b][i].id < chan_log[b][j].id

(***************************************************************************)
(* C36: at any time all sessions whose current text channel has the same   *)
(* name hold the same bus, the one the channel map stores under that name, *)
(* also after the channel was deleted and created again or after a session *)
(* stayed on a deleted channel.                                            *)
(***************************************************************************)
C36_OneBusPerName ==
    \A s \in Sessions :
       pc[s] # "none" =>
          /\ channel[s] \in DOMAIN channels => chan_tx[s] = channels[channel[s]]
          /\ \A t \in Sessions :
                (pc[t] # "none" /\ channel[t] = channel[s]) => chan_tx[t] = chan_tx[s]

(***************************************************************************)
(* C37: once a presence handler and a POST /role request for the same      *)
(* public key that ran at the same time have both finished, the role-map   *)
(* entry of the registering user equals the role the roles table stores    *)
(* for the key, and the last role-update published for the user carries    *)
(* that role.                                                              *)
(***************************************************************************)
C37_Stored(key) ==
    [role |-> db_roles[key].role,
     color |-> IF IsSome(db_roles[key].color) THEN db_roles[key].color
               ELSE default_color(db_roles[key].role)]

C37_LastRoleUpdate(u) ==
    LET at == {i \in 1 .. Len(tx) : tx[i].type = "role-update" /\ tx[i].user = u}
    IN  IF at = {} THEN None
        ELSE Some(tx[CHOOSE i \in at : \A j \in at : j <= i])

C37_RoleAgrees ==
    (/\ \A s \in Sessions : pc[s] \in {"none", "loop"}
     /\ http.pc = "idle" /\ http.served > 0 /\ http.status = 200)
       => \A s \in Sessions :
             (IsSome(user_name[s]) /\ Unwrap(user_name[s]) \in DOMAIN user_keys) =>
                LET u == Unwrap(user_name[s])
                    key == user_keys[u]
                IN  key \in DOMAIN db_roles =>
                       /\ u \in DOMAIN roles
                       /\ roles[u] = C37_Stored(key)
                       /\ C37_LastRoleUpdate(u) = Some(RoleUpdate(u, C37_Stored(key)))

(***************************************************************************)
(* C38: voice-users events are published in the order in which the         *)
(* membership changes they report were applied: once every voice-join,     *)
(* voice-leave and disconnect handler has finished, the last voice-users   *)
(* event published for a room lists exactly the room's current members.    *)
(* The runs looked at are those in which the room is the only one and no   *)
(* room was deleted, so that every change of its members is followed by a  *)
(* voice-users event for it.                                               *)
(***************************************************************************)
C38_LastVoiceUsers(ch) ==
    LET at == {i \in 1 .. Len(tx) : tx[i].type = "voice-users" /\ tx[i].channel = ch}
    IN  IF at = {} THEN None
        ELSE Some(tx[CHOOSE i \in at : \A j \in at : j <= i].users)

C38_AtRest ==
    /\ \A s \in Sessions : pc[s] \in {"none", "loop", "closed"}
    /\ \A i \in 1 .. Len(tx) : tx[i].type # "voice-channel-remove"

C38_LastEventIsCurrent ==
    C38_AtRest =>
       \A ch \in DOMAIN voice_channels :
          (DOMAIN voice_channels = {ch} /\ IsSome(C38_LastVoiceUsers(ch)))
             => Unwrap(C38_LastVoiceUsers(ch)) = voice_channels[ch].users

(***************************************************************************)
(* Deletion races: the first session sends ephemeral chat frames, and      *)
(* every registered session delete-message frames for message 1, while the *)
(* deletion tasks run.                                                     *)
(***************************************************************************)
RaceFrameCount == 5

RaceFrames(s) ==
    IF ~IsSome(user_name[s])
    THEN {PresenceFrame(Some(IF s = 1 THEN Alice ELSE Bob), None, None, None, None)}
    ELSE {DeleteMessageFrame(Some(1))}
         \cup (IF s = 1 THEN {EphemeralFrame(user_name[s], None, Rfc3339(0))} ELSE {})

NextRace ==
    \/ \E s \in Sessions : Connect(s, "ip1")
    \/ \E s \in Sessions : \E f \in RaceFrames(s) : RecvFrame(s, f, RaceFrameCount)
    \/ HandlerStep
    \/ ExpiryStep

SpecRace == InitPresence /\ [][NextRace]_vars

(***************************************************************************)
(* C39: for every message id at most one message-deleted event is ever     *)
(* published, however the delete-message frames of several sessions and    *)
(* the deletion task of the message interleave; a handler or task whose    *)
(* DELETE found no row publishes nothing and ends.                         *)
(***************************************************************************)
C39_DeletedOn(b, id) ==
    {i \in 1 .. Len(chan_log[b]) :
        chan_log[b][i].type = "message-deleted" /\ chan_log[b][i].id = id}

C39_AtMostOnce ==
    \A id \in 1 .. RaceFrameCount :
       \A b, c \in DOMAIN chan_log :
          \A i \in C39_DeletedOn(b, id) : \A j \in C39_DeletedOn(c, id) : b = c /\ i = j

C39_NoRowNoEvent ==
    /\ \A s \in Sessions :
          (pc[s] = "dm_delete" /\ \A r \in local[s] : r.id \notin DOMAIN messages)
             => (pc'[s] # "dm_delete" => pc'[s] = "loop" /\ chan_log' = chan_log)
    /\ \A t \in expiry_tasks :
          (t.pc = "delete" /\ t.id \notin DOMAIN messages /\ t \notin expiry_tasks')
             => (expiry_tasks' = expiry_tasks \ {t} /\ chan_log' = chan_log)

C39_OneMessageDeleted == [][C39_AtMostOnce' /\ C39_NoRowNoEvent]_vars

\* One session's delete-message has removed message 1 and published the
\* event, while the other session's handler and the deletion task of the
\* message both stand before their own DELETE.
C39_Witness ==
    /\ 1 \notin DOMAIN messages
    /\ \E b \in DOMAIN chan_log : C39_DeletedOn(b, 1) # {}
    /\ \E s \in Sessions : pc[s] = "dm_delete" /\ \E r \in local[s] : r.id = 1
    /\ \E t \in expiry_tasks : t.pc = "delete" /\ t.id = 1

(***************************************************************************)
(* The end of a session on a server without password: the first client     *)
(* sends presence and then chat frames, the second one only listens, and   *)
(* the stream of frames of either may end or break at any time.  The       *)
(* runtime's scheduler runs every task that can go on: a handler or        *)
(* cleanup step that stays possible is taken, and an event that waits on a *)
(* bus is received.  Nothing makes a peer send a frame.                    *)
(***************************************************************************)
EndFrameCount == 3

EndFrames(s) ==
    IF s # 1 THEN {}
    ELSE IF ~IsSome(user_name[s])
    THEN {PresenceFrame(Some(Alice), None, None, None, None)}
    ELSE {ChatFrame(None, "hi")}

SessionStep(s) ==
    \/ PresenceAuth(s)
    \/ PresenceRegister(s)
    \/ PresenceKnown(s)
    \/ PresenceStatus(s)
    \/ PresenceBroadcastStatus(s)
    \/ ReadOnline(s, "p_busers", "p_busers2")
    \/ PresenceBroadcastUsers(s)
    \/ PresenceSnapshot(s)
    \/ ChatLimit(s)
    \/ ChatInsert(s)
    \/ ChatChannel(s)
    \/ ChatSend(s)
    \/ \E sent \in BOOLEAN : ForwardChannel(s, sent)
    \/ \E sent \in BOOLEAN : ForwardGlobal(s, sent)
    \/ DisconnectUsers(s)
    \/ ReadOnline(s, "d_busers", "d_busers2")
    \/ DisconnectBroadcastUsers(s)
    \/ DisconnectVoice(s)
    \/ DisconnectStatus(s)
    \/ DisconnectBroadcastStatus(s)

NextEnd ==
    \/ \E s \in Sessions : Connect(s, "ip1")
    \/ \E s \in Sessions : \E f \in EndFrames(s) : RecvFrame(s, f, EndFrameCount)
    \/ \E s \in Sessions : RecvNonText(s)
    \/ \E s \in Sessions : RecvEnd(s)
    \/ \E s \in Sessions : SessionStep(s)

SpecEnd ==
    /\ InitPresence /\ [][NextEnd]_vars
    /\ \A s \in Sessions : WF_vars(SessionStep(s))

(***************************************************************************)
(* C40: after the stream of inbound frames of a registered session has     *)
(* ended, the session's loop eventually exits and the disconnect cleanup   *)
(* runs: the user is taken out of the online set and its status becomes    *)
(* offline, also when no further event is ever published on the session's  *)
(* channel bus or on the global bus.                                       *)
(***************************************************************************)
C40_EndLeadsToCleanup ==
    \A s \in Sessions :
       (pc[s] = "ended" /\ IsSome(user_name[s]))
          ~> (/\ pc[s] = "closed" /\ IsSome(user_name[s])
              /\ Unwrap(user_name[s]) \notin users
              /\ Unwrap(user_name[s]) \in DOMAIN statuses
              /\ statuses[Unwrap(user_name[s])] = "offline")

====
